---- MODULE Spec2Model ----
(***************************************************************************)
(* Model of the usage aggregation core of cursor-stats:                    *)
(*   - the monthly usage builder (fetchMonthData, processMidMonthPayment), *)
(*   - the billing period anchor of fetchCursorStats,                      *)
(*   - the refresh flow updateStats -> fetchCursorStats ->                 *)
(*     checkTeamMembership with its membership cache file,                 *)
(*   - the currency conversion with its rate cache file,                   *)
(*   - the unknown-model tracker of the display pass of updateStats.       *)
(*                                                                         *)
(* Money is counted in integer cents.  The source keeps dollars as floats  *)
(* (cents / 100) and prints them with toFixed(2); for the amounts used     *)
(* here that is exact, so a dollar amount is represented by its cents.     *)
(***************************************************************************)
EXTENDS Integers, Sequences, FiniteSets, TLC

\* ------------------------------------------------------------------ bounds
\* longest invoice (number of lines) explored by the month builder
MaxLines == 3
\* last calendar year explored by the billing period computation
MaxYear == 2026
\* largest consecutive error count explored
MaxErrCount == 2
\* number of rate cache expiry periods explored
MaxDays == 1
\* largest number of items of the month displayed by one refresh
MaxItems == 2
\* largest configured refresh interval explored below the default, in seconds
MaxInterval == 12

VARIABLES
    \* --- month builder (one run of fetchMonthData)
    invoice,          \* invoiceData.items of the response being processed
    idx,              \* position of the for-loop over items (next line)
    usageItems,       \* usageItems built so far
    midMonthPayment,  \* running mid-month total, in cents
    monthResult,      \* the record fetchMonthData returned, once returned
    mpc,              \* "off" | "loop" | "returned" | "displayed"
    actualTotalCost,  \* the total cost updateStats computes from the returned items, in cents
    \* --- billing period anchor
    today,            \* currentDate: [day, month, year]
    period,           \* the four usageBased* locals once computed
    dpc,              \* "off" | "start" | "computed"
    \* --- refresh flow
    refresh,          \* per trigger source: the locals of its updateStats call
    cache,            \* content of the membership cache file user-cache.json
    errCount,         \* consecutive error count
    statusBar,        \* what the status bar item shows
    cooldownStartTime,  \* start of the cooldown in progress, 0 (null) when there is none
    \* --- refresh timer
    refreshInterval,  \* cursorStats.refreshInterval as configured, in seconds
    intervalMs,       \* period of the refresh timer as last started, in milliseconds
    \* --- currency conversion
    rateFile,         \* content of the rate cache file currency-rates.json
    now,              \* Date.now(), in milliseconds
    conv,             \* the locals of the conversion call in progress / last made
    \* --- unknown-model tracker (module state of updateStats.ts)
    detectedUnknownModels,          \* the Set of terms
    unknownModelNotificationShown,  \* the once-per-session flag
    informationMessages,            \* the showInformationMessage calls made for it
    scan              \* per trigger source: position of its display pass

monthVars == <<invoice, idx, usageItems, midMonthPayment, monthResult, mpc, actualTotalCost>>
dateVars == <<today, period, dpc>>
refreshVars == <<refresh, cache, errCount, statusBar, cooldownStartTime>>
currencyVars == <<rateFile, now, conv>>
trackerVars == <<detectedUnknownModels, unknownModelNotificationShown, informationMessages, scan>>
intervalVars == <<refreshInterval, intervalMs>>
vars == <<monthVars, dateVars, refreshVars, currencyVars, trackerVars, intervalVars>>

Abs(n) == IF n < 0 THEN -n ELSE n

\* ===========================================================================
\* Invoice lines.  A description is represented by the features the code's
\* string tests and regular expressions read from it:
\*   mid   description.includes("Mid-month usage paid")
\*   fmt   which of the count patterns of pass 2 matches first:
\*           "token"    /^(\d+) token-based usage calls to ([\w.-]+), totalling: \$.../
\*           "general"  /^(\d+)\s+(.+?)(?: request| calls)?(?: beyond|\*| per|$)/i
\*           "count"    only /^(\d+)/
\*           "none"     no leading digits
\*   count the number captured by that pattern (0 when fmt = "none")
\*   tokenModel   the model name captured by the "token" pattern
\* for a "general" description, what the label strategies read:
\*   tool   description.includes("tool calls")
\*   known  the model captured by genericModelPattern, "" when it does not match
\*   xfast  description.includes("extra fast premium request")
\*   paren  the phrase captured by /extra fast premium requests? \(([^)]+)\)/i,
\*          "" when it does not match
\* and the cents property by
\*   centsKind  "absent" (no own property), "undefined" (own property whose
\*              value is undefined) or "number";  cents is 0 unless "number".
\* ===========================================================================
CentsKinds == {"absent", "undefined", "number"}
Fmts == {"token", "general", "count", "none"}

MkLine(mid, centsKind, cents, fmt, count) ==
    [mid |-> mid, centsKind |-> centsKind, cents |-> cents, fmt |-> fmt, count |-> count,
     tokenModel |-> IF fmt = "token" THEN "claude-4-opus" ELSE "",
     tool |-> FALSE, known |-> "", xfast |-> FALSE, paren |-> ""]
\* a "general" line of 5 requests for $4.00 with these label features
Labelled(tool, known, xfast, paren) ==
    [MkLine(FALSE, "number", 400, "general", 5) EXCEPT
        !.tool = tool, !.known = known, !.xfast = xfast, !.paren = paren]

\* the invoice lines the month builder is explored on
MidLines ==
    {MkLine(TRUE, "number", c, "none", 0) : c \in {-500, -300, 250, 0}}
      \cup {MkLine(TRUE, "absent", 0, "none", 0), MkLine(TRUE, "undefined", 0, "none", 0)}
UsageLines ==
    {MkLine(FALSE, "number", 420, "token", 42),
     MkLine(FALSE, "number", 400, "general", 5),
     MkLine(FALSE, "number", -100, "general", 5),
     MkLine(FALSE, "number", 400, "general", 0),
     MkLine(FALSE, "number", 30, "count", 3),
     MkLine(FALSE, "number", 1998, "general", 999),
     MkLine(FALSE, "number", 30, "none", 0),
     MkLine(FALSE, "absent", 0, "general", 5),
     MkLine(FALSE, "undefined", 0, "general", 5)}
LabelledLines ==
    {Labelled(FALSE, "gpt-4", FALSE, ""),
     Labelled(FALSE, "", TRUE, ""),
     Labelled(FALSE, "", TRUE, "Haiku"),
     Labelled(FALSE, "gpt-4", TRUE, ""),
     Labelled(FALSE, "gpt-4", TRUE, "Haiku"),
     Labelled(TRUE, "", FALSE, ""),
     Labelled(TRUE, "gpt-4", TRUE, "Haiku")}
Lines == MidLines \cup UsageLines \cup LabelledLines

RECURSIVE SeqsUpTo(_, _)
SeqsUpTo(S, n) ==
    IF n = 0 THEN {<<>>}
    ELSE LET shorter == SeqsUpTo(S, n - 1)
         IN shorter \cup {Append(s, x) : s \in {t \in shorter : Len(t) = n - 1}, x \in S}

Invoices == SeqsUpTo(Lines, MaxLines)

\* ===========================================================================
\* processMidMonthPayment(item, currentMidMonthTotal)
\* ===========================================================================
Null == [isNull |-> TRUE]

\* a totalDollars string: an optional "-" before the "$", then toFixed(2) of
\* the amount (kept in cents)
Dollars(minusPrefix, cents) == [minusPrefix |-> minusPrefix, cents |-> cents]

\* variant: an undefined cents value counts as a payment of 0
processMidMonthPayment_undefinedAsZero(item, currentMidMonthTotal) ==
    IF ~item.mid THEN Null
    ELSE LET paymentAmount == IF item.centsKind # "number" THEN 0 ELSE Abs(item.cents)
             updatedTotal == currentMidMonthTotal + paymentAmount
         IN [isNull |-> FALSE,
             updatedTotal |-> updatedTotal,
             usageItem |-> [calculation |-> [kind |-> "midMonthPayment", shown |-> updatedTotal],
                            totalDollars |-> Dollars(TRUE, updatedTotal),
                            description |-> item]]

\* variant: the synthetic item shows the amount of the line, not the running total
processMidMonthPayment_perLine(item, currentMidMonthTotal) ==
    IF ~item.mid THEN Null
    ELSE IF item.centsKind # "number" THEN Null
    ELSE LET paymentAmount == Abs(item.cents)
             updatedTotal == currentMidMonthTotal + paymentAmount
         IN [isNull |-> FALSE,
             updatedTotal |-> updatedTotal,
             usageItem |-> [calculation |-> [kind |-> "midMonthPayment", shown |-> paymentAmount],
                            totalDollars |-> Dollars(TRUE, paymentAmount),
                            description |-> item]]

processMidMonthPayment(item, currentMidMonthTotal) ==
    IF ~item.mid THEN Null
    ELSE IF item.centsKind # "number" THEN Null
    ELSE LET paymentAmount == Abs(item.cents)
             updatedTotal == currentMidMonthTotal + paymentAmount
         IN [isNull |-> FALSE,
             updatedTotal |-> updatedTotal,
             usageItem |-> [calculation |-> [kind |-> "midMonthPayment", shown |-> updatedTotal],
                            totalDollars |-> Dollars(TRUE, updatedTotal),
                            description |-> item]]

\* ===========================================================================
\* calculatePaddingWidths (pass 1) and the padded texts of pass 2
\* ===========================================================================
\* Number.prototype.toString().length of a non-negative integer
RECURSIVE DigitCount(_)
DigitCount(n) == IF n < 10 THEN 1 ELSE 1 + DigitCount(n \div 10)

\* (costPerRequestCents / 100).toFixed(3) for costPerRequestCents = num / den
\* with den > 0: the sign and the thousandths of a dollar printed
ToFixed3(num, den) ==
    [neg |-> num < 0, mills |-> (2 * 10 * Abs(num) + den) \div (2 * den)]
\* the length of that text: "-", the integer digits, "." and three decimals
TextLength(text) == (IF text.neg THEN 1 ELSE 0) + DigitCount(text.mills \div 1000) + 4

\* the request count pass 1 reads: the leading digits of the description
LeadingCount(item) == IF item.fmt = "none" THEN 0 ELSE item.count

\* pass 1, one iteration: acc = [maxRequestCount, num, den] where num / den is
\* maxCostCentsForPadding
PaddingStep(acc, item) ==
    IF item.centsKind # "number" \/ item.mid THEN acc
    ELSE IF LeadingCount(item) = 0 THEN acc
    ELSE [maxRequestCount |-> IF LeadingCount(item) > acc.maxRequestCount
                              THEN LeadingCount(item) ELSE acc.maxRequestCount,
          num |-> IF item.cents * acc.den > acc.num * LeadingCount(item) THEN item.cents ELSE acc.num,
          den |-> IF item.cents * acc.den > acc.num * LeadingCount(item)
                  THEN LeadingCount(item) ELSE acc.den]

RECURSIVE PaddingPass(_, _, _)
PaddingPass(acc, items, i) ==
    IF i > Len(items) THEN acc ELSE PaddingPass(PaddingStep(acc, items[i]), items, i + 1)

\* variant: counts are not padded
calculatePaddingWidths_noPadding(items) ==
    LET acc == PaddingPass([maxRequestCount |-> 0, num |-> 0, den |-> 1], items, 1)
    IN [paddingWidth |-> 1,
        costPaddingWidth |-> TextLength(ToFixed3(acc.num, acc.den))]

calculatePaddingWidths(items) ==
    LET acc == PaddingPass([maxRequestCount |-> 0, num |-> 0, den |-> 1], items, 1)
    IN [paddingWidth |-> IF acc.maxRequestCount > 0 THEN DigitCount(acc.maxRequestCount) ELSE 1,
        costPaddingWidth |-> TextLength(ToFixed3(acc.num, acc.den))]

\* String.prototype.padStart: the length of the padded text
PadStartLength(length, width) == IF length >= width THEN length ELSE width

\* ===========================================================================
\* fetchMonthData: one iteration of `for (const item of items)`.
\* st = [usageItems, midMonthPayment]; the result is the state after the
\* iteration (a `continue` leaves st as it is).
\* ===========================================================================
\* the translated labels t("api.toolCalls"), t("api.fastPremium") and
\* t("statusBar.unknownModel")
ToolCallsLabel == "Tool Calls"
FastPremiumLabel == "Fast Premium"
UnknownModelLabel == "unknown-model"

\* parsedModelName: the captured model of a token-based line; for a general
\* line the parser of the first strategy whose condition holds, in the order
\* of modelParsingStrategies; the unknown-model label otherwise
ParsedModelName(item) ==
    IF item.fmt = "token" THEN item.tokenModel
    ELSE IF item.fmt # "general" THEN UnknownModelLabel
    ELSE IF item.tool THEN ToolCallsLabel
    ELSE IF item.known # "" THEN item.known
    ELSE IF item.xfast THEN (IF item.paren # "" THEN item.paren ELSE FastPremiumLabel)
    ELSE UnknownModelLabel

\* calculation is `**${paddedRequestCount}** req @ **$${cost}${tilde}**`:
\* shown is the count, countLength and costLength the lengths of the padded
\* count and per-request cost, cost the per-request cost printed
RegularItem(item, requestCount, pad) ==
    [calculation |-> [kind |-> "req", shown |-> requestCount,
                      countLength |-> PadStartLength(DigitCount(requestCount), pad.paddingWidth),
                      cost |-> ToFixed3(item.cents, requestCount),
                      costLength |-> PadStartLength(TextLength(ToFixed3(item.cents, requestCount)),
                                                    pad.costPaddingWidth)],
     totalDollars |-> Dollars(FALSE, item.cents),
     description |-> item,
     modelNameForTooltip |-> ParsedModelName(item)]

ProcessLine(st, item, pad) ==
    IF item.centsKind = "absent" THEN st
    ELSE LET midMonthResult == processMidMonthPayment(item, st.midMonthPayment)
         IN IF ~midMonthResult.isNull
            THEN [usageItems |-> Append(st.usageItems, midMonthResult.usageItem),
                  midMonthPayment |-> midMonthResult.updatedTotal]
            ELSE IF item.centsKind = "undefined" THEN st
            ELSE IF item.fmt = "none" THEN st
            ELSE IF item.count = 0 THEN st
            ELSE [usageItems |-> Append(st.usageItems, RegularItem(item, item.count, pad)),
                  midMonthPayment |-> st.midMonthPayment]

RECURSIVE ProcessLines(_, _, _, _)
ProcessLines(st, items, i, pad) ==
    IF i > Len(items) THEN st ELSE ProcessLines(ProcessLine(st, items[i], pad), items, i + 1, pad)

\* the record fetchMonthData returns for a response with these items
\* (hasUnpaid is invoiceData.hasUnpaidMidMonthInvoice ?? false)
MonthRecord(st, hasUnpaid) ==
    [items |-> st.usageItems,
     hasUnpaidMidMonthInvoice |-> hasUnpaid,
     midMonthPayment |-> st.midMonthPayment]

fetchMonthData(items, hasUnpaid) ==
    MonthRecord(ProcessLines([usageItems |-> <<>>, midMonthPayment |-> 0], items, 1,
                             calculatePaddingWidths(items)), hasUnpaid)

NoMonth == [items |-> <<>>, hasUnpaidMidMonthInvoice |-> FALSE, midMonthPayment |-> -1]

\* --- the builder as a step machine ---------------------------------------


NextLine ==
    /\ mpc = "loop"
    /\ idx <= Len(invoice)
    /\ LET st == ProcessLine([usageItems |-> usageItems, midMonthPayment |-> midMonthPayment],
                             invoice[idx], calculatePaddingWidths(invoice))
       IN /\ usageItems' = st.usageItems
          /\ midMonthPayment' = st.midMonthPayment
    /\ idx' = idx + 1
    /\ UNCHANGED <<invoice, monthResult, mpc, actualTotalCost, dateVars, refreshVars, currencyVars,
                   trackerVars, intervalVars>>

ReturnMonth ==
    /\ mpc = "loop"
    /\ idx > Len(invoice)
    /\ monthResult' = MonthRecord([usageItems |-> usageItems, midMonthPayment |-> midMonthPayment],
                                  FALSE)
    /\ mpc' = "returned"
    /\ UNCHANGED <<invoice, idx, usageItems, midMonthPayment, actualTotalCost, dateVars, refreshVars,
                   currencyVars, trackerVars, intervalVars>>

\* ===========================================================================
\* fetchCursorStats: the usage-based billing period anchor
\* ===========================================================================
usageBasedBillingDay == 3

IsLeap(y) == (y % 4 = 0 /\ y % 100 # 0) \/ y % 400 = 0
DaysIn(m, y) ==
    IF m = 2 THEN (IF IsLeap(y) THEN 29 ELSE 28)
    ELSE IF m \in {4, 6, 9, 11} THEN 30 ELSE 31

Dates == {d \in [day : 1..31, month : 1..12, year : 2024..MaxYear] : d.day <= DaysIn(d.month, d.year)}

\* variant: the year is not rolled back with the month
BillingCurrent_sameYear(currentDate) ==
    LET m0 == currentDate.month
        y0 == currentDate.year
    IN IF currentDate.day < usageBasedBillingDay
       THEN [month |-> IF m0 = 1 THEN 12 ELSE m0 - 1, year |-> y0]
       ELSE [month |-> m0, year |-> y0]

\* usageBasedCurrentMonth / usageBasedCurrentYear
BillingCurrent(currentDate) ==
    LET m0 == currentDate.month
        y0 == currentDate.year
    IN IF currentDate.day < usageBasedBillingDay
       THEN LET m1 == IF m0 = 1 THEN 12 ELSE m0 - 1
            IN [month |-> m1, year |-> IF m1 = 12 THEN y0 - 1 ELSE y0]
       ELSE [month |-> m0, year |-> y0]

\* variant: the preceding month keeps the year of the active month
BillingLast_sameYear(cur) ==
    [month |-> IF cur.month = 1 THEN 12 ELSE cur.month - 1, year |-> cur.year]

\* usageBasedLastMonth / usageBasedLastYear
BillingLast(cur) ==
    [month |-> IF cur.month = 1 THEN 12 ELSE cur.month - 1,
     year |-> IF cur.month = 1 THEN cur.year - 1 ELSE cur.year]

NoPeriod == [current |-> [month |-> 0, year |-> 0], last |-> [month |-> 0, year |-> 0]]



ComputePeriod ==
    /\ dpc = "start"
    /\ LET cur == BillingCurrent(today)
       IN period' = [current |-> cur, last |-> BillingLast(cur)]
    /\ dpc' = "computed"
    /\ UNCHANGED <<today, monthVars, refreshVars, currencyVars, trackerVars, intervalVars>>

\* ===========================================================================
\* The refresh flow: updateStats -> fetchCursorStats -> checkTeamMembership.
\* A step of the flow is taken when the awaited answer (credential store or
\* network) arrives; it runs the code up to the next awaited call.  File I/O
\* on the cache is synchronous and is part of the step.
\* ===========================================================================
Procs == {"timer", "manual"}

\* credentials (session tokens) and the JWT subject each one carries
Tokens == {"tokA", "tokB"}
NoToken == "undefined"
jwtSub(tok) == IF tok = "tokB" THEN "subB" ELSE "subA"

\* an id or count that is undefined
Undef == -1
\* JavaScript truthiness of an optional number
Truthy(n) == n # Undef /\ n # 0

\* errors a network call can fail with, and the error thrown by
\* extractUserUsage / by reading a property of undefined
NetErrors == {"http401", "http403", "http500"}
NoError == "none"

\* updateStats, the condition of the auth error handler
\* (isAuthError(err) || status 401 || status 403)
IsCredentialRejection(e) == e \in {"authError", "http401", "http403"}

\* --- upstream answers ------------------------------------------------------
Failure(e) == [ok |-> FALSE, err |-> e, body |-> <<>>]
Success(b) == [ok |-> TRUE, err |-> NoError, body |-> b]
Failures == {Failure(e) : e \in NetErrors}

StartOfMonths == {"", "2025-06-01"}

Quota(n, max) == [numRequests |-> n, maxRequestUsage |-> max]
NoEntry == Quota(Undef, Undef)

\* GET /api/usage: data["gpt-4"] (NoEntry when the key is missing) and startOfMonth
\* as read by checkTeamMembership (startOfMonth only)
CtmUsageAnswers == {Success([gpt4 |-> Quota(150, 500), startOfMonth |-> s]) : s \in StartOfMonths}
\* as read by fetchCursorStats
UsageAnswers ==
    {Success([gpt4 |-> q, startOfMonth |-> "2025-06-01"]) : q \in {Quota(150, 500), Quota(0, 0), NoEntry}}
\* POST /api/dashboard/teams: the id of teams[0], Undef when there is no team
TeamsAnswers == {Success([teams |-> t]) : t \in {<<>>, <<7>>}}
\* POST /api/dashboard/team: userId
TeamAnswers == {Success([userId |-> u]) : u \in {Undef, 3}}
\* POST /api/dashboard/get-team-usage: teamMemberUsage
Member(id, usageData) == [id |-> id, usageData |-> usageData]
Usage(modelType, q) == [modelType |-> modelType, q |-> q]
TeamUsageAnswers ==
    {Success(<<>>),
     Success(<<Member(4, <<Usage("gpt-4", Quota(9, 500))>>)>>),
     Success(<<Member(3, <<>>)>>),
     Success(<<Member(3, <<Usage("gpt-3.5-turbo", Quota(1, 100))>>)>>),
     Success(<<Member(4, <<Usage("gpt-4", Quota(9, 500))>>),
               Member(3, <<Usage("gpt-3.5-turbo", Quota(1, 100)), Usage("gpt-4", Quota(150, 500))>>)>>),
     Success(<<Member(3, <<Usage("gpt-4", Quota(Undef, 0))>>)>>)}
\* POST /api/dashboard/get-monthly-invoice
RefreshInvoices ==
    {<<>>,
     <<MkLine(TRUE, "number", -500, "none", 0), MkLine(FALSE, "number", 420, "token", 42),
       MkLine(TRUE, "number", -300, "none", 0)>>}
InvoiceAnswers == {Success([items |-> inv, hasUnpaidMidMonthInvoice |-> FALSE]) : inv \in RefreshInvoices}
\* new Date() in fetchCursorStats
RefreshDates == {[day |-> 2, month |-> 1, year |-> 2025]}
\* Date.now() in checkTeamMembership
Stamps == {1}

\* --- the membership cache file ---------------------------------------------
CacheRecord(userId, sub, isTeamMember, teamId, lastChecked, startOfMonth) ==
    [kind |-> "record", userId |-> userId, jwtSub |-> sub, isTeamMember |-> isTeamMember,
     teamId |-> teamId, lastChecked |-> lastChecked, startOfMonth |-> startOfMonth]
NoCacheFile == [CacheRecord(0, "", FALSE, Undef, 0, "") EXCEPT !.kind = "missing"]
BadCacheFile == [CacheRecord(0, "", FALSE, Undef, 0, "") EXCEPT !.kind = "malformed"]
\* what an earlier session can have left behind
InitialCaches ==
    {NoCacheFile, BadCacheFile,
     CacheRecord(3, "subA", TRUE, 7, 0, "2025-06-01"),
     CacheRecord(0, "subB", FALSE, Undef, 0, "2025-06-01")}

\* loadUserCache: the parsed file, or null (here: a non-record) when the file
\* is missing or cannot be read or parsed
loadUserCache(c) == IF c.kind = "record" THEN c ELSE NoCacheFile

\* variant: the write keeps the subject of the record it replaces
saveUserCache_merge(c, cacheData, writeOk) ==
    IF ~writeOk THEN c
    ELSE IF c.kind = "record" THEN [cacheData EXCEPT !.jwtSub = c.jwtSub]
    ELSE cacheData

\* saveUserCache: writeFileSync, whose failure is caught and logged
saveUserCache(c, cacheData, writeOk) == IF writeOk THEN cacheData ELSE c

\* --- locals of one updateStats call ----------------------------------------
TeamInfo(isTeamMember, teamId, userId, startOfMonth) ==
    [isTeamMember |-> isTeamMember, teamId |-> teamId, userId |-> userId, startOfMonth |-> startOfMonth]
NoTeamInfo == TeamInfo(FALSE, Undef, Undef, "")
Premium(current, limit, startOfMonth) ==
    [current |-> current, limit |-> limit, startOfMonth |-> startOfMonth]
NoPremium == Premium(Undef, Undef, "")
MonthEntry(my, data) == [month |-> my.month, year |-> my.year, usageBasedPricing |-> data]
NoMonthEntry == MonthEntry([month |-> 0, year |-> 0], NoMonth)
Stats(cur, last, premium) == [currentMonth |-> cur, lastMonth |-> last, premiumRequests |-> premium]
NoStats == Stats(NoMonthEntry, NoMonthEntry, NoPremium)
NoResponse == [call |-> "none", answer |-> Failure(NoError)]

Idle ==
    [pc |-> "idle",
     token |-> NoToken,            \* token passed to fetchCursorStats
     tokenReads |-> 0,             \* calls of getCursorTokenFromDB so far
     attempts |-> 0,               \* calls of fetchCursorStats so far
     error |-> NoError,            \* error received by the .catch handler
     newToken |-> NoToken,         \* credential re-resolved by the auth handler
     thrown |-> NoError,           \* error received by the outer catch
     ctmCalls |-> 0,               \* network calls made by checkTeamMembership in this attempt
     ctmSource |-> "none",         \* where teamInfo came from: cache | saved | unsaved
     teamInfo |-> NoTeamInfo,
     premiumRequests |-> NoPremium,
     period |-> NoPeriod,
     currentMonthData |-> NoMonth,
     stats |-> NoStats,
     activeMonthData |-> NoMonthEntry,
     timerRestarts |-> 0,          \* calls of startRefreshInterval by this updateStats call
     received |-> NoResponse]      \* the answer that triggered the last step

CtmPcs == {"ctmUsage", "ctmTeams", "ctmTeam"}
FetchPcs == CtmPcs \cup {"teamUsage", "indivUsage", "monthCur", "monthLast"}
EndPcs == {"idle", "noToken", "done", "failed"}

\* --- checkTeamMembership ---------------------------------------------------
\* variant: the subject of the record is not compared
CacheHit_anySubject(c, tok) ==
    LET loaded == loadUserCache(c)
    IN loaded.kind = "record" /\ loaded.startOfMonth # ""

\* variant: a record is trusted only when it was checked in this session
CacheHit_recent(c, tok) ==
    LET loaded == loadUserCache(c)
    IN /\ loaded.kind = "record" /\ loaded.jwtSub = jwtSub(tok) /\ loaded.startOfMonth # ""
       /\ loaded.lastChecked > 0

\* the cache check at the head of checkTeamMembership
CacheHit(c, tok) ==
    LET loaded == loadUserCache(c)
    IN loaded.kind = "record" /\ loaded.jwtSub = jwtSub(tok) /\ loaded.startOfMonth # ""

\* variant: a failed resolution invalidates the file
CtmCatch_clear(c) == NoCacheFile

\* the catch block of checkTeamMembership: log and rethrow, the file is not touched
CtmCatch(c) == c

FromCache(c) == TeamInfo(c.isTeamMember, c.teamId, c.userId, c.startOfMonth)

\* variant: a member id is usable unless it is absent
QuotaPc_zeroUsable(teamInfo) ==
    IF teamInfo.isTeamMember /\ Truthy(teamInfo.teamId) /\ teamInfo.userId # Undef
    THEN "teamUsage" ELSE "indivUsage"

\* fetchCursorStats, the choice of the quota source
QuotaPc(teamInfo) ==
    IF teamInfo.isTeamMember /\ Truthy(teamInfo.teamId) /\ Truthy(teamInfo.userId)
    THEN "teamUsage" ELSE "indivUsage"

\* variant: a cache file that cannot be parsed makes the attempt fail
EnterFetch_readThrows(f, tok, c) ==
    LET g == [f EXCEPT !.token = tok, !.attempts = @ + 1, !.ctmCalls = 0, !.ctmSource = "none",
                       !.teamInfo = NoTeamInfo, !.premiumRequests = NoPremium, !.period = NoPeriod,
                       !.currentMonthData = NoMonth]
    IN IF c.kind = "malformed" THEN [g EXCEPT !.thrown = "typeError", !.pc = "failed"]
       ELSE IF CacheHit(c, tok)
       THEN [g EXCEPT !.teamInfo = FromCache(loadUserCache(c)), !.ctmSource = "cache",
                      !.pc = QuotaPc(FromCache(loadUserCache(c)))]
       ELSE [g EXCEPT !.pc = "ctmUsage", !.ctmCalls = 1]

\* fetchCursorStats(tok) from its call to its first awaited network call
EnterFetch(f, tok, c) ==
    LET g == [f EXCEPT !.token = tok, !.attempts = @ + 1, !.ctmCalls = 0, !.ctmSource = "none",
                       !.teamInfo = NoTeamInfo, !.premiumRequests = NoPremium, !.period = NoPeriod,
                       !.currentMonthData = NoMonth]
    IN IF CacheHit(c, tok)
       THEN [g EXCEPT !.teamInfo = FromCache(loadUserCache(c)), !.ctmSource = "cache",
                      !.pc = QuotaPc(FromCache(loadUserCache(c)))]
       ELSE [g EXCEPT !.pc = "ctmUsage", !.ctmCalls = 1]

\* variant: a failure after the quota resolution returns what was built so far
Fail_partialSnapshot(f, e) ==
    IF f.premiumRequests # NoPremium
    THEN [f EXCEPT !.stats = Stats(MonthEntry(f.period.current, f.currentMonthData), NoMonthEntry,
                                   f.premiumRequests),
                   !.pc = "done"]
    ELSE IF f.attempts = 1
    THEN IF IsCredentialRejection(e)
         THEN [f EXCEPT !.error = e, !.pc = "retoken", !.tokenReads = @ + 1]
         ELSE [f EXCEPT !.error = e, !.thrown = e, !.pc = "failed"]
    ELSE [f EXCEPT !.thrown = e, !.pc = "failed"]

\* variant: the first failure of a refresh is retried whatever the error
Fail_retryAny(f, e) ==
    IF f.attempts = 1
    THEN [f EXCEPT !.error = e, !.pc = "retoken", !.tokenReads = @ + 1]
    ELSE [f EXCEPT !.thrown = e, !.pc = "failed"]

\* variant: every credential rejection is retried
Fail_retryAlways(f, e) ==
    IF IsCredentialRejection(e)
    THEN [f EXCEPT !.error = e, !.pc = "retoken", !.tokenReads = @ + 1]
    ELSE [f EXCEPT !.error = e, !.thrown = e, !.pc = "failed"]

\* an error leaves fetchCursorStats: the .catch handler of the first call
\* re-resolves the credential on a credential rejection, anything else goes
\* to the outer catch of updateStats
Fail(f, e) ==
    IF f.attempts = 1
    THEN IF IsCredentialRejection(e)
         THEN [f EXCEPT !.error = e, !.pc = "retoken", !.tokenReads = @ + 1]
         ELSE [f EXCEPT !.error = e, !.thrown = e, !.pc = "failed"]
    ELSE [f EXCEPT !.thrown = e, !.pc = "failed"]

\* the record checkTeamMembership saves
CacheData(tok, teamInfo, stamp) ==
    CacheRecord(IF teamInfo.userId = Undef THEN 0 ELSE teamInfo.userId,
                jwtSub(tok), teamInfo.isTeamMember, teamInfo.teamId, stamp, teamInfo.startOfMonth)

\* checkTeamMembership returns a fresh teamInfo
ReturnFresh(f, teamInfo, writeOk) ==
    [f EXCEPT !.teamInfo = teamInfo, !.ctmSource = IF writeOk THEN "saved" ELSE "unsaved",
              !.pc = QuotaPc(teamInfo)]

\* --- extractUserUsage ------------------------------------------------------
RECURSIVE Find(_, _, _)
\* index of the first element of seq satisfying Test, 0 if none (Array.find)
Find(seq, Test(_), i) ==
    IF i > Len(seq) THEN 0 ELSE IF Test(seq[i]) THEN i ELSE Find(seq, Test, i + 1)

\* variant: a member without a gpt-4 entry counts as zero usage
extractUserUsage_zero(teamUsage, userId) ==
    LET IsUser(member) == member.id = userId
        u == Find(teamUsage, IsUser, 1)
    IN IF u = 0 THEN Failure("notFound")
       ELSE LET IsGpt4(data) == data.modelType = "gpt-4"
                g == Find(teamUsage[u].usageData, IsGpt4, 1)
            IN IF g = 0 THEN Success(Quota(0, 0))
               ELSE LET gpt4Usage == teamUsage[u].usageData[g].q
                    IN Success(Quota(IF gpt4Usage.numRequests = Undef THEN 0 ELSE gpt4Usage.numRequests,
                                     gpt4Usage.maxRequestUsage))

extractUserUsage(teamUsage, userId) ==
    LET IsUser(member) == member.id = userId
        u == Find(teamUsage, IsUser, 1)
    IN IF u = 0 THEN Failure("notFound")
       ELSE LET IsGpt4(data) == data.modelType = "gpt-4"
                g == Find(teamUsage[u].usageData, IsGpt4, 1)
            IN IF g = 0 THEN Failure("notFound")
               ELSE LET gpt4Usage == teamUsage[u].usageData[g].q
                    IN Success(Quota(IF gpt4Usage.numRequests = Undef THEN 0 ELSE gpt4Usage.numRequests,
                                     gpt4Usage.maxRequestUsage))

\* --- updateStats after a successful fetch ----------------------------------
\* variant: the active period is always displayed
ActiveMonthData_current(stats) == stats.currentMonth

\* the month selected for display
ActiveMonthData(stats) ==
    IF Len(stats.currentMonth.usageBasedPricing.items) > 0 THEN stats.currentMonth ELSE stats.lastMonth

\* a JavaScript number that is an integer, NaN or Infinity
Finite(n) == [kind |-> "finite", n |-> n]
NaN == [kind |-> "NaN", n |-> 0]
Infinity == [kind |-> "Infinity", n |-> 0]

\* Math.round((current / limit) * 100) for current >= 0: 0 / 0 and a division
\* by undefined give NaN, n / 0 gives Infinity
PremiumPercent(premium) ==
    IF premium.limit = Undef \/ premium.current = Undef THEN NaN
    ELSE IF premium.limit = 0 THEN (IF premium.current = 0 THEN NaN ELSE Infinity)
    ELSE Finite((2 * 100 * premium.current + premium.limit) \div (2 * premium.limit))

\* what the refresh displays: the quota and its percentage in the tooltip, the
\* month of the usage lines, and the percentage handed to checkAndNotifyUsage
Shown(stats) ==
    [kind |-> "stats", current |-> stats.premiumRequests.current, limit |-> stats.premiumRequests.limit,
     month |-> ActiveMonthData(stats).month,
     premiumPercent |-> PremiumPercent(stats.premiumRequests),
     notifiedPercent |-> PremiumPercent(stats.premiumRequests)]
NothingShown ==
    [kind |-> "none", current |-> Undef, limit |-> Undef, month |-> 0,
     premiumPercent |-> Finite(0), notifiedPercent |-> Finite(0)]
NoTokenShown == [NothingShown EXCEPT !.kind = "noToken"]

\* fetchCursorStats returned stats to updateStats
Complete(f, stats) ==
    [f EXCEPT !.stats = stats, !.activeMonthData = ActiveMonthData(stats), !.pc = "done"]

\* --- the error state -------------------------------------------------------
\* getCooldownStartTime() is null (no cooldown) or the time the cooldown began
NoCooldown == 0
CooldownStamps == {1}

\* variant: a successful fetch resets the count only
CooldownAfter_kept(f, cooldown) == cooldown

\* the cooldown after a step that leads to frame f: a successful fetch ends it
CooldownAfter(f, cooldown) ==
    IF f.pc = "done" /\ cooldown # NoCooldown THEN NoCooldown ELSE cooldown

\* the consecutive error count after a step that leads to frame f: the outer
\* catch counts the error, a successful fetch resets the count
ErrCountAfter(f, count, cooldown) ==
    IF f.pc = "failed" THEN count + 1
    ELSE IF f.pc = "done" /\ (count > 0 \/ cooldown # NoCooldown) THEN 0
    ELSE count

\* startRefreshInterval() is called when a successful fetch ends a cooldown
TimerAfter(f, cooldown) ==
    IF f.pc = "done" /\ cooldown # NoCooldown THEN [f EXCEPT !.timerRestarts = @ + 1] ELSE f

\* --- the steps -------------------------------------------------------------
\* the whole effect of a step of p: f is the new frame of p, c the new cache
\* file
Step(p, f, c) ==
    /\ f.pc = "failed" => errCount < MaxErrCount
    /\ refresh' = [refresh EXCEPT ![p] = TimerAfter(f, cooldownStartTime)]
    /\ cache' = c
    /\ errCount' = ErrCountAfter(f, errCount, cooldownStartTime)
    /\ statusBar' = IF f.pc = "done" THEN Shown(f.stats)
                    ELSE IF f.pc = "noToken" THEN NoTokenShown
                    ELSE statusBar
    /\ cooldownStartTime' = CooldownAfter(f, cooldownStartTime)
    /\ UNCHANGED <<monthVars, dateVars, currencyVars, trackerVars, intervalVars>>

\* the cooldown logic of ./utils/cooldown calls setCooldownStartTime(Date.now())
\* once a refresh has failed
CooldownStarted(p) ==
    /\ refresh[p].pc = "failed"
    /\ errCount > 0
    /\ cooldownStartTime = NoCooldown
    /\ \E t \in CooldownStamps : cooldownStartTime' = t
    /\ UNCHANGED <<refresh, cache, errCount, statusBar, monthVars, dateVars, currencyVars, trackerVars,
                   intervalVars>>

Got(f, call, answer) == [f EXCEPT !.received = [call |-> call, answer |-> answer]]

\* a trigger (timer, command, focus) calls updateStats
Start(p) ==
    /\ refresh[p].pc \in EndPcs
    /\ Step(p, [Idle EXCEPT !.pc = "getToken", !.tokenReads = 1], cache)

\* getCursorTokenFromDB answers the first read
TokenResolved(p) ==
    /\ refresh[p].pc = "getToken"
    /\ \E tok \in Tokens \cup {NoToken} :
          Step(p, IF tok = NoToken THEN [refresh[p] EXCEPT !.pc = "noToken"]
                  ELSE [refresh[p] EXCEPT !.token = tok, !.pc = "usageStatus"], cache)

\* checkUsageBasedStatus answers (it never throws); fetchCursorStats is called
UsageStatusChecked(p) ==
    /\ refresh[p].pc = "usageStatus"
    /\ Step(p, EnterFetch(refresh[p], refresh[p].token, cache), cache)

\* checkTeamMembership: GET /api/usage answers
CtmUsageResponseOn(p, answers) ==
    /\ refresh[p].pc = "ctmUsage"
    /\ \E a \in answers :
          LET f == Got(refresh[p], "ctmUsage", a)
          IN IF ~a.ok THEN Step(p, Fail(f, a.err), CtmCatch(cache))
             ELSE Step(p, [f EXCEPT !.teamInfo.startOfMonth = a.body.startOfMonth,
                                    !.ctmCalls = @ + 1, !.pc = "ctmTeams"], cache)

\* CtmUsageResponseOn under every answer of the model
CtmUsageResponse(p) == CtmUsageResponseOn(p, Failures \cup CtmUsageAnswers)

\* checkTeamMembership: POST /api/dashboard/teams answers
CtmTeamsResponseOn(p, answers) ==
    /\ refresh[p].pc = "ctmTeams"
    /\ \E a \in answers, writeOk \in BOOLEAN, stamp \in Stamps :
          LET f == Got(refresh[p], "ctmTeams", a)
          IN IF ~a.ok THEN Step(p, Fail(f, a.err), CtmCatch(cache))
             ELSE LET isTeamMember == Len(a.body.teams) > 0
                      teamId == IF Len(a.body.teams) > 0 THEN a.body.teams[1] ELSE Undef
                      teamInfo == [f.teamInfo EXCEPT !.isTeamMember = isTeamMember, !.teamId = teamId]
                  IN IF isTeamMember /\ Truthy(teamId)
                     THEN Step(p, [f EXCEPT !.teamInfo = teamInfo, !.ctmCalls = @ + 1, !.pc = "ctmTeam"],
                               cache)
                     ELSE Step(p, ReturnFresh(f, teamInfo, writeOk),
                               saveUserCache(cache, CacheData(f.token, teamInfo, stamp), writeOk))

\* CtmTeamsResponseOn under every answer of the model
CtmTeamsResponse(p) == CtmTeamsResponseOn(p, Failures \cup TeamsAnswers)

\* checkTeamMembership: POST /api/dashboard/team answers
CtmTeamResponseOn(p, answers) ==
    /\ refresh[p].pc = "ctmTeam"
    /\ \E a \in answers, writeOk \in BOOLEAN, stamp \in Stamps :
          LET f == Got(refresh[p], "ctmTeam", a)
          IN IF ~a.ok THEN Step(p, Fail(f, a.err), CtmCatch(cache))
             ELSE LET teamInfo == [f.teamInfo EXCEPT !.userId = a.body.userId]
                  IN Step(p, ReturnFresh(f, teamInfo, writeOk),
                          saveUserCache(cache, CacheData(f.token, teamInfo, stamp), writeOk))

\* CtmTeamResponseOn under every answer of the model
CtmTeamResponse(p) == CtmTeamResponseOn(p, Failures \cup TeamAnswers)

\* the billing period is computed once premiumRequests is known
WithPremium(f, premium, date) ==
    [f EXCEPT !.premiumRequests = premium,
              !.period = [current |-> BillingCurrent(date), last |-> BillingLast(BillingCurrent(date))],
              !.pc = "monthCur"]

\* fetchCursorStats: POST get-team-usage answers, extractUserUsage
TeamUsageResponseOn(p, answers) ==
    /\ refresh[p].pc = "teamUsage"
    /\ \E a \in answers, date \in RefreshDates :
          LET f == Got(refresh[p], "teamUsage", a)
          IN Step(p, IF ~a.ok THEN Fail(f, a.err)
                     ELSE LET userUsage == extractUserUsage(a.body, f.teamInfo.userId)
                          IN IF ~userUsage.ok THEN Fail(f, userUsage.err)
                             ELSE WithPremium(f, Premium(userUsage.body.numRequests,
                                                         userUsage.body.maxRequestUsage,
                                                         f.teamInfo.startOfMonth), date), cache)

\* TeamUsageResponseOn under every answer of the model
TeamUsageResponse(p) == TeamUsageResponseOn(p, Failures \cup TeamUsageAnswers)

\* fetchCursorStats: GET /api/usage answers (individual quota)
IndivUsageResponseOn(p, answers) ==
    /\ refresh[p].pc = "indivUsage"
    /\ \E a \in answers, date \in RefreshDates :
          LET f == Got(refresh[p], "indivUsage", a)
          IN Step(p, IF ~a.ok THEN Fail(f, a.err)
                     ELSE IF a.body.gpt4 = NoEntry THEN Fail(f, "typeError")
                     ELSE WithPremium(f, Premium(a.body.gpt4.numRequests, a.body.gpt4.maxRequestUsage,
                                                 a.body.startOfMonth), date), cache)

\* IndivUsageResponseOn under every answer of the model
IndivUsageResponse(p) == IndivUsageResponseOn(p, Failures \cup UsageAnswers)

\* fetchMonthData of the active period answers
CurrentMonthResponseOn(p, answers) ==
    /\ refresh[p].pc = "monthCur"
    /\ \E a \in answers :
          LET f == Got(refresh[p], "monthCur", a)
          IN Step(p, IF ~a.ok THEN Fail(f, a.err)
                     ELSE [f EXCEPT !.currentMonthData =
                                        fetchMonthData(a.body.items, a.body.hasUnpaidMidMonthInvoice),
                                    !.pc = "monthLast"], cache)

\* CurrentMonthResponseOn under every answer of the model
CurrentMonthResponse(p) == CurrentMonthResponseOn(p, Failures \cup InvoiceAnswers)

\* fetchMonthData of the preceding period answers; on success fetchCursorStats
\* returns and updateStats runs to its end
LastMonthResponseOn(p, answers) ==
    /\ refresh[p].pc = "monthLast"
    /\ \E a \in answers :
          LET f == Got(refresh[p], "monthLast", a)
          IN Step(p, IF ~a.ok THEN Fail(f, a.err)
                     ELSE Complete(f, Stats(MonthEntry(f.period.current, f.currentMonthData),
                                            MonthEntry(f.period.last,
                                                       fetchMonthData(a.body.items,
                                                                      a.body.hasUnpaidMidMonthInvoice)),
                                            f.premiumRequests)), cache)

\* LastMonthResponseOn under every answer of the model
LastMonthResponse(p) == LastMonthResponseOn(p, Failures \cup InvoiceAnswers)

\* the auth handler's getCursorTokenFromDB answers: retry with the new token,
\* or rethrow the original error
TokenReResolved(p) ==
    /\ refresh[p].pc = "retoken"
    /\ \E newToken \in Tokens \cup {NoToken} :
          Step(p, IF newToken = NoToken
                  THEN [refresh[p] EXCEPT !.thrown = refresh[p].error, !.pc = "failed"]
                  ELSE EnterFetch([refresh[p] EXCEPT !.newToken = newToken], newToken, cache), cache)

\* ===========================================================================
\* Currency conversion (utils/currency.ts): the rate cache file, the rate feed
\* and the formatting of an amount in the configured display currency.
\*
\* A number of dollars (or of units of another currency) is kept in
\* ten-thousandths, so $4.20 is 42000; an exchange rate is kept in hundredths,
\* so 0.92 is 92.  Time is Date.now(), in milliseconds.
\* ===========================================================================
CACHE_EXPIRY_MS == 24 * 60 * 60 * 1000

\* the instants explored: the millisecond before, at and after each multiple
\* of the expiry
Instants == {t \in {k * CACHE_EXPIRY_MS + o : k \in 0..MaxDays, o \in {-1, 0, 1}} : t >= 0}

\* getCurrentCurrency(): the configured display currency
Currencies == {"USD", "EUR", "JPY"}
\* the amounts converted: $0.00, $4.20, $19.99
Amounts == {0, 42000, 199900}

\* String.prototype.toLowerCase on a currency code
toLowerCase(code) ==
    CASE code = "USD" -> "usd" [] code = "EUR" -> "eur" [] code = "JPY" -> "jpy" [] OTHER -> code

\* symbolMap[currencyCode] || currencyCode
getCurrencySymbol(currencyCode) ==
    CASE currencyCode = "USD" -> "$"
      [] currencyCode = "EUR" -> "€"
      [] currencyCode = "JPY" -> "¥"
      [] OTHER -> currencyCode

\* --- rate snapshots (CurrencyRates): date and the usd mapping ---------------
Rates(date, usd) == [date |-> date, usd |-> usd]
NoRates == Rates("", <<>>)
Snapshots ==
    {Rates("2025-06-01", ("eur" :> 92) @@ ("jpy" :> 15000)),
     Rates("2025-06-02", ("eur" :> 95))}
\* rates.usd[key]: Undef when the mapping has no such key
RateOf(rates, key) == IF key \in DOMAIN rates.usd THEN rates.usd[key] ELSE Undef

\* GET CURRENCY_API_URL
RateAnswers == {Failure("http500")} \cup {Success(r) : r \in Snapshots}

\* --- the rate cache file (CurrencyCache) ------------------------------------
RateRecord(rates, timestamp) == [kind |-> "record", rates |-> rates, timestamp |-> timestamp]
NoRateFile == [RateRecord(NoRates, 0) EXCEPT !.kind = "missing"]
BadRateFile == [RateRecord(NoRates, 0) EXCEPT !.kind = "malformed"]
\* what an earlier session can have left behind
InitialRateFiles ==
    {NoRateFile, BadRateFile} \cup {RateRecord(r, 0) : r \in Snapshots}

\* variant: a snapshot of exactly the expiry age still counts as fresh
getCachedRates_inclusive(file, t) ==
    IF file.kind = "record" /\ t - file.timestamp <= CACHE_EXPIRY_MS THEN file.rates ELSE NoRates

\* getCachedRates: cache.rates while the file is younger than the expiry,
\* otherwise null (here NoRates); a missing or unreadable file gives null
getCachedRates(file, t) ==
    IF file.kind = "record" /\ t - file.timestamp < CACHE_EXPIRY_MS THEN file.rates ELSE NoRates

\* saveCurrencyCache: writeFileSync of {rates, timestamp: Date.now()}, whose
\* failure is caught and logged
saveCurrencyCache(file, rates, t, writeOk) == IF writeOk THEN RateRecord(rates, t) ELSE file

\* --- numbers to text --------------------------------------------------------
\* Number.prototype.toFixed(2) and Math.round of a non-negative number,
\* giving hundredths and units
ToFixed2(v) == (v + 50) \div 100
MathRound(v) == (v + 5000) \div 10000
\* a formatted amount: the symbol, the number of decimals printed and the
\* number printed, counted in its last printed digit
Text(symbol, decimals, n) == [symbol |-> symbol, decimals |-> decimals, n |-> n]
NoText == Text("", 0, Undef)

\* formatCurrency(amount, currencyCode), decimals = 2
formatCurrency(amount, currencyCode) ==
    LET symbol == getCurrencySymbol(currencyCode)
    IN IF currencyCode = "JPY" \/ currencyCode = "KRW"
       THEN Text(symbol, 0, MathRound(amount))
       ELSE Text(symbol, 2, ToFixed2(amount))

\* `$${amount.toFixed(decimals)}`
UsdText(amount) == Text("$", 2, ToFixed2(amount))

\* --- locals of one conversion call -------------------------------------------
Money(value, symbol) == [value |-> value, symbol |-> symbol]
NoMoney == Money(Undef, "")

NoConversion ==
    [pc |-> "idle",
     entry |-> "none",             \* the exported function called
     amount |-> 0,
     currencyCode |-> "USD",       \* targetCurrency / getCurrentCurrency()
     cacheReads |-> 0,             \* reads of the rate cache file in this call
     cacheWrites |-> 0,            \* writes of the rate cache file attempted in this call
     netCalls |-> 0,               \* requests sent to the rate feed in this call
     source |-> "none",            \* where the rates in use came from: cache | feed
     rates |-> NoRates,            \* the snapshot in use
     received |-> NoResponse,      \* the answer of the rate feed
     raised |-> FALSE,             \* convertAmount rejected
     result |-> NoMoney,           \* what convertAmount returned
     formatted |-> NoText]         \* what convertAndFormatCurrency returned
Entries == {"convertAmount", "convertAndFormatCurrency"}

\* variant: a missing rate is taken to be 1 and the result keeps the target's symbol
ApplyRate_assumeOne(amount, targetCurrency, rates) ==
    LET rate == RateOf(rates, toLowerCase(targetCurrency))
    IN IF ~Truthy(rate) THEN Money(amount, getCurrencySymbol(targetCurrency))
       ELSE Money((amount \div 100) * rate, getCurrencySymbol(targetCurrency))

\* convertAmount, once it holds the rates: the rate of the target currency
\* applied (amount * rate; the amounts converted are whole cents, so the
\* division by 100 is exact), or the amount itself in USD when there is no
\* (truthy) rate
ApplyRate(amount, targetCurrency, rates) ==
    LET rate == RateOf(rates, toLowerCase(targetCurrency))
    IN IF ~Truthy(rate) THEN Money(amount, "$")
       ELSE Money((amount \div 100) * rate, getCurrencySymbol(targetCurrency))

\* convertAndFormatCurrency once convertAmount has settled: the returned
\* symbol is dropped, the value is formatted for the configured currency
FormatResult(f) ==
    IF f.entry # "convertAndFormatCurrency" THEN f
    ELSE [f EXCEPT !.formatted = IF f.raised THEN UsdText(f.amount)
                                 ELSE formatCurrency(f.result.value, f.currencyCode)]

\* convertAmount returns money
ConvertReturn(f, money) == FormatResult([f EXCEPT !.result = money, !.pc = "done"])

\* variant: the catch of convertAmount passes the error on
ConvertCatch_rethrow(f) == FormatResult([f EXCEPT !.raised = TRUE, !.pc = "done"])

\* convertAmount, the catch: fall back to USD
ConvertCatch(f) == ConvertReturn(f, Money(f.amount, "$"))

\* variant: USD is converted like any other currency
convertAmount_noShortcut(f, file, t) ==
    LET cachedRates == getCachedRates(file, t)
        g == [f EXCEPT !.cacheReads = 1]
    IN IF cachedRates # NoRates
       THEN ConvertReturn([g EXCEPT !.source = "cache", !.rates = cachedRates],
                          ApplyRate(f.amount, f.currencyCode, cachedRates))
       ELSE [g EXCEPT !.pc = "fetching", !.netCalls = 1]

\* convertAmount -> fetchExchangeRates -> getCachedRates, up to the request
\* to the rate feed
convertAmount(f, file, t) ==
    IF f.currencyCode = "USD" THEN ConvertReturn(f, Money(f.amount, "$"))
    ELSE LET cachedRates == getCachedRates(file, t)
             g == [f EXCEPT !.cacheReads = 1]
         IN IF cachedRates # NoRates
            THEN ConvertReturn([g EXCEPT !.source = "cache", !.rates = cachedRates],
                               ApplyRate(f.amount, f.currencyCode, cachedRates))
            ELSE [g EXCEPT !.pc = "fetching", !.netCalls = 1]

convertAndFormatCurrency(f, file, t) ==
    IF f.currencyCode = "USD" THEN [f EXCEPT !.formatted = UsdText(f.amount), !.pc = "done"]
    ELSE convertAmount(f, file, t)

\* --- the steps ---------------------------------------------------------------
\* a caller converts an amount
ConvertCallOn(entries, amounts, codes) ==
    /\ conv.pc \in {"idle", "done"}
    /\ \E entry \in entries, amount \in amounts, code \in codes :
          LET f == [NoConversion EXCEPT !.entry = entry, !.amount = amount, !.currencyCode = code]
          IN conv' = IF entry = "convertAmount" THEN convertAmount(f, rateFile, now)
                     ELSE convertAndFormatCurrency(f, rateFile, now)
    /\ UNCHANGED <<rateFile, now, monthVars, dateVars, refreshVars, trackerVars,
                   intervalVars>>

\* ConvertCallOn under every call of the model
ConvertCall == ConvertCallOn(Entries, Amounts, Currencies)

\* the rate feed answers: fetchExchangeRates saves and returns the snapshot, or
\* throws into the catch of convertAmount
RatesResponse ==
    /\ conv.pc = "fetching"
    /\ \E answer \in RateAnswers, writeOk \in BOOLEAN :
          LET f == [conv EXCEPT !.received = [call |-> "rates", answer |-> answer]]
          IN IF ~answer.ok
             THEN /\ conv' = ConvertCatch(f)
                  /\ rateFile' = rateFile
             ELSE /\ rateFile' = saveCurrencyCache(rateFile, answer.body, now, writeOk)
                  /\ conv' = ConvertReturn([f EXCEPT !.cacheWrites = 1, !.source = "feed",
                                                     !.rates = answer.body],
                                           ApplyRate(f.amount, f.currencyCode, answer.body))
    /\ UNCHANGED <<now, monthVars, dateVars, refreshVars, trackerVars,
                   intervalVars>>

\* time passes
Tick ==
    /\ \E t \in Instants : t > now /\ now' = t
    /\ UNCHANGED <<rateFile, conv, monthVars, dateVars, refreshVars, trackerVars,
                   intervalVars>>

\* ===========================================================================
\* The unknown-model tracker of updateStats.ts: the module-level set
\* detectedUnknownModels and the flag unknownModelNotificationShown.
\*
\* A term is a string, kept as the sequence of its character codes, so that
\* toLowerCase and includes are computed as JavaScript computes them.
\* ===========================================================================
\* String.prototype.toLowerCase (ASCII letters)
LowerChar(c) == IF c >= 65 /\ c <= 90 THEN c + 32 ELSE c
LowerCase(s) == [i \in 1..Len(s) |-> LowerChar(s[i])]
\* String.prototype.includes
Includes(s, sub) == \E i \in 0..(Len(s) - Len(sub)) : SubSeq(s, i + 1, i + Len(sub)) = sub

veryGenericKeywords ==
    {<<117, 115, 97, 103, 101>>,  \* "usage"
     <<99, 97, 108, 108, 115>>,  \* "calls"
     <<114, 101, 113, 117, 101, 115, 116>>,  \* "request"
     <<114, 101, 113, 117, 101, 115, 116, 115>>,  \* "requests"
     <<99, 101, 110, 116, 115>>,  \* "cents"
     <<98, 101, 121, 111, 110, 100>>,  \* "beyond"
     <<109, 111, 110, 116, 104>>,  \* "month"
     <<100, 97, 121>>,  \* "day"
     <<106, 97, 110, 117, 97, 114, 121>>,  \* "january"
     <<102, 101, 98, 114, 117, 97, 114, 121>>,  \* "february"
     <<109, 97, 114, 99, 104>>,  \* "march"
     <<97, 112, 114, 105, 108>>,  \* "april"
     <<109, 97, 121>>,  \* "may"
     <<106, 117, 110, 101>>,  \* "june"
     <<106, 117, 108, 121>>,  \* "july"
     <<97, 117, 103, 117, 115, 116>>,  \* "august"
     <<115, 101, 112, 116, 101, 109, 98, 101, 114>>,  \* "september"
     <<111, 99, 116, 111, 98, 101, 114>>,  \* "october"
     <<110, 111, 118, 101, 109, 98, 101, 114>>,  \* "november"
     <<100, 101, 99, 101, 109, 98, 101, 114>>,  \* "december"
     <<112, 114, 101, 109, 105, 117, 109>>,  \* "premium"
     <<101, 120, 116, 114, 97>>,  \* "extra"
     <<116, 111, 111, 108>>,  \* "tool"
     <<102, 97, 115, 116>>,  \* "fast"
     <<116, 104, 105, 110, 107, 105, 110, 103>>}  \* "thinking"
\* "token-based" and "discounted"
NotATerm ==
    {<<116, 111, 107, 101, 110, 45, 98, 97, 115, 101, 100>>,
     <<100, 105, 115, 99, 111, 117, 110, 116, 101, 100>>}

\* items of the displayed month, by what the display pass reads from them:
\*   mid                  description.includes("Mid-month usage paid")
\*   modelNameForTooltip  the label given by fetchMonthData
\*   term                 extractedTermForNotification after the pattern
\*                        matching and the cleanup of lines 316-355
DisplayItem(mid, modelNameForTooltip, term) ==
    [mid |-> mid, modelNameForTooltip |-> modelNameForTooltip, term |-> term]
NoItem == DisplayItem(FALSE, "", <<>>)
UnknownTerms ==
    {<<99, 57>>,        \* "c9"
     <<67, 57>>,        \* "C9"
     <<99, 57, 109>>,   \* "c9m"
     <<109, 120>>,      \* "mx"
     <<109>>,           \* "m"
     <<68, 97, 121>>}   \* "Day"
DisplayItems ==
    {DisplayItem(TRUE, "", <<>>), DisplayItem(FALSE, "gpt-4", <<>>)}
      \cup {DisplayItem(FALSE, "unknown-model", term) : term \in UnknownTerms}

\* variant: only an identical entry suppresses the add
alreadyPresent_exact(detected, term) == \E d \in detected : d = term

\* alreadyPresent: some entry contains the term or is contained in it,
\* ignoring case
alreadyPresent(detected, term) ==
    \E d \in detected :
        \/ Includes(LowerCase(d), LowerCase(term))
        \/ Includes(LowerCase(term), LowerCase(d))

\* the conditions on the cleaned term (lines 357-395)
Meaningful(term) ==
    /\ Len(term) > 1
    /\ LowerCase(term) \notin NotATerm
    /\ LowerCase(term) \notin veryGenericKeywords

\* one iteration of the item loop of the display pass: detectedUnknownModels
\* after it
ObserveItem(detected, item) ==
    IF item.mid THEN detected
    ELSE IF item.modelNameForTooltip # "unknown-model" THEN detected
    ELSE IF ~Meaningful(item.term) THEN detected
    ELSE IF alreadyPresent(detected, item.term) THEN detected
    ELSE detected \cup {item.term}

\* variant: the notification is shown whenever the set is not empty
ShouldNotify_always(shown, detected) == detected # {}

\* the condition of the aggregated notification
ShouldNotify(shown, detected) == ~shown /\ detected # {}

\* --- the display pass of one updateStats call --------------------------------
NoScan == [pc |-> "idle", i |-> 0, last |-> NoItem]

\* fetchCursorStats has returned; the display pass of p begins
DisplayStart(p) ==
    /\ scan[p].pc \in {"idle", "done", "failed"}
    /\ scan' = [scan EXCEPT ![p] = [NoScan EXCEPT !.pc = "items"]]
    /\ UNCHANGED <<detectedUnknownModels, unknownModelNotificationShown, informationMessages,
                   monthVars, dateVars, refreshVars, currencyVars, intervalVars>>

\* the next item of the displayed month, up to the awaited conversion of its cost
ItemObserved(p) ==
    /\ scan[p].pc = "items"
    /\ scan[p].i < MaxItems
    /\ \E item \in DisplayItems :
          /\ detectedUnknownModels' = ObserveItem(detectedUnknownModels, item)
          /\ scan' = [scan EXCEPT ![p] = [pc |-> "items", i |-> scan[p].i + 1, last |-> item]]
    /\ UNCHANGED <<unknownModelNotificationShown, informationMessages,
                   monthVars, dateVars, refreshVars, currencyVars, intervalVars>>

\* the items are done and the tooltip is built: the status bar is updated and
\* the aggregated notification is shown if it is due
DisplayCompleted(p) ==
    /\ scan[p].pc = "items"
    /\ IF ShouldNotify(unknownModelNotificationShown, detectedUnknownModels)
       THEN /\ unknownModelNotificationShown' = TRUE
            /\ informationMessages' = Append(informationMessages, detectedUnknownModels)
       ELSE UNCHANGED <<unknownModelNotificationShown, informationMessages>>
    /\ scan' = [scan EXCEPT ![p].pc = "done"]
    /\ UNCHANGED <<detectedUnknownModels, monthVars, dateVars, refreshVars, currencyVars, intervalVars>>

\* an awaited call of the display pass rejects: the outer catch ends the refresh
DisplayAborted(p) ==
    /\ scan[p].pc = "items"
    /\ scan' = [scan EXCEPT ![p].pc = "failed"]
    /\ UNCHANGED <<detectedUnknownModels, unknownModelNotificationShown, informationMessages,
                   monthVars, dateVars, refreshVars, currencyVars, intervalVars>>

\* ===========================================================================
\* The refresh timer (extension.ts): its period is getRefreshIntervalMs() at
\* the time it is started.
\* ===========================================================================
\* package.json, contributes.configuration: the value of
\* cursorStats.refreshInterval when the user has not set one.  The declared
\* minimum is a hint of the settings editor; settings.json accepts any number.
DefaultRefreshInterval == 60
ConfiguredIntervals == 0..MaxInterval \cup {DefaultRefreshInterval}

Max(a, b) == IF a >= b THEN a ELSE b

\* getRefreshIntervalMs: Math.max(config.get("refreshInterval", 30), 5) * 1000
getRefreshIntervalMs(configured) == Max(configured, 5) * 1000

\* the user changes cursorStats.refreshInterval
ConfigChanged ==
    /\ \E seconds \in ConfiguredIntervals : seconds # refreshInterval /\ refreshInterval' = seconds
    /\ UNCHANGED <<intervalMs, monthVars, dateVars, refreshVars, currencyVars, trackerVars>>

\* the configuration change listener (or activation, or a focus change)
\* restarts the timer
TimerRestarted ==
    /\ intervalMs' = getRefreshIntervalMs(refreshInterval)
    /\ intervalMs' # intervalMs
    /\ UNCHANGED <<refreshInterval, monthVars, dateVars, refreshVars, currencyVars, trackerVars>>

\* ===========================================================================
\* the total cost of the active month, as the display computes it
\* ===========================================================================
\* Number.parseFloat(item.totalDollars.replace("$", "")), in cents: "-$8.00"
\* reads as -8, "$-1.00" as -1
ParseTotal(totalDollars) ==
    IF totalDollars.minusPrefix THEN -totalDollars.cents ELSE totalDollars.cents

\* variant: every item is added
RECURSIVE TotalCost_all(_, _)
TotalCost_all(items, i) ==
    IF i > Len(items) THEN 0 ELSE ParseTotal(items[i].totalDollars) + TotalCost_all(items, i + 1)

\* items.reduce((sum, item) => cost > 0 ? sum + cost : sum, 0), from item i on
RECURSIVE TotalCost(_, _)
TotalCost(items, i) ==
    IF i > Len(items) THEN 0
    ELSE (IF ParseTotal(items[i].totalDollars) > 0 THEN ParseTotal(items[i].totalDollars) ELSE 0)
         + TotalCost(items, i + 1)

\* updateStats computes actualTotalCost from the month fetchMonthData returned
ShowTotal ==
    /\ mpc = "returned"
    /\ actualTotalCost' = TotalCost(monthResult.items, 1)
    /\ mpc' = "displayed"
    /\ UNCHANGED <<invoice, idx, usageItems, midMonthPayment, monthResult, dateVars, refreshVars,
                   currencyVars, trackerVars, intervalVars>>

\* ===========================================================================
\* specifications
\* ===========================================================================
\* the month builder on every invoice of up to MaxLines lines
MonthInit ==
    /\ invoice \in Invoices
    /\ idx = 1
    /\ usageItems = <<>>
    /\ midMonthPayment = 0
    /\ monthResult = NoMonth
    /\ mpc = "loop"
    /\ actualTotalCost = Undef
    /\ today = [day |-> 15, month |-> 6, year |-> 2025]
    /\ period = NoPeriod
    /\ dpc = "off"
    /\ refresh = [p \in Procs |-> Idle]
    /\ cache = NoCacheFile
    /\ errCount = 0
    /\ statusBar = NothingShown
    /\ cooldownStartTime = NoCooldown
    /\ rateFile = NoRateFile
    /\ now = 0
    /\ conv = NoConversion
    /\ detectedUnknownModels = {}
    /\ unknownModelNotificationShown = FALSE
    /\ informationMessages = <<>>
    /\ scan = [p \in Procs |-> NoScan]
    /\ refreshInterval = DefaultRefreshInterval
    /\ intervalMs = getRefreshIntervalMs(DefaultRefreshInterval)
MonthNext == NextLine \/ ReturnMonth \/ ShowTotal
SpecMonth == MonthInit /\ [][MonthNext]_vars

\* the billing period anchor on every date
DateInit ==
    /\ invoice = <<>>
    /\ idx = 1
    /\ usageItems = <<>>
    /\ midMonthPayment = 0
    /\ monthResult = NoMonth
    /\ mpc = "off"
    /\ actualTotalCost = Undef
    /\ today \in Dates
    /\ period = NoPeriod
    /\ dpc = "start"
    /\ refresh = [p \in Procs |-> Idle]
    /\ cache = NoCacheFile
    /\ errCount = 0
    /\ statusBar = NothingShown
    /\ cooldownStartTime = NoCooldown
    /\ rateFile = NoRateFile
    /\ now = 0
    /\ conv = NoConversion
    /\ detectedUnknownModels = {}
    /\ unknownModelNotificationShown = FALSE
    /\ informationMessages = <<>>
    /\ scan = [p \in Procs |-> NoScan]
    /\ refreshInterval = DefaultRefreshInterval
    /\ intervalMs = getRefreshIntervalMs(DefaultRefreshInterval)
DateNext == ComputePeriod
SpecDate == DateInit /\ [][DateNext]_vars

\* refreshes run one at a time, triggered by the timer
Init ==
    /\ invoice = <<>>
    /\ idx = 1
    /\ usageItems = <<>>
    /\ midMonthPayment = 0
    /\ monthResult = NoMonth
    /\ mpc = "off"
    /\ actualTotalCost = Undef
    /\ today = [day |-> 15, month |-> 6, year |-> 2025]
    /\ period = NoPeriod
    /\ dpc = "off"
    /\ refresh = [p \in Procs |-> Idle]
    /\ cache \in InitialCaches
    /\ errCount = 0
    /\ statusBar = NothingShown
    /\ cooldownStartTime = NoCooldown
    /\ rateFile = NoRateFile
    /\ now = 0
    /\ conv = NoConversion
    /\ detectedUnknownModels = {}
    /\ unknownModelNotificationShown = FALSE
    /\ informationMessages = <<>>
    /\ scan = [p \in Procs |-> NoScan]
    /\ refreshInterval = DefaultRefreshInterval
    /\ intervalMs = getRefreshIntervalMs(DefaultRefreshInterval)
Next ==
    \E p \in {"timer"} :
        \/ Start(p)
        \/ TokenResolved(p)
        \/ UsageStatusChecked(p)
        \/ CtmUsageResponse(p)
        \/ CtmTeamsResponse(p)
        \/ CtmTeamResponse(p)
        \/ TeamUsageResponse(p)
        \/ IndivUsageResponse(p)
        \/ CurrentMonthResponse(p)
        \/ LastMonthResponse(p)
        \/ TokenReResolved(p)
        \/ CooldownStarted(p)
Spec == Init /\ [][Next]_vars

\* conversions, one at a time, against every rate cache file
CurrencyInit ==
    /\ invoice = <<>>
    /\ idx = 1
    /\ usageItems = <<>>
    /\ midMonthPayment = 0
    /\ monthResult = NoMonth
    /\ mpc = "off"
    /\ actualTotalCost = Undef
    /\ today = [day |-> 15, month |-> 6, year |-> 2025]
    /\ period = NoPeriod
    /\ dpc = "off"
    /\ refresh = [p \in Procs |-> Idle]
    /\ cache = NoCacheFile
    /\ errCount = 0
    /\ statusBar = NothingShown
    /\ cooldownStartTime = NoCooldown
    /\ rateFile \in InitialRateFiles
    /\ now = 0
    /\ conv = NoConversion
    /\ detectedUnknownModels = {}
    /\ unknownModelNotificationShown = FALSE
    /\ informationMessages = <<>>
    /\ scan = [p \in Procs |-> NoScan]
    /\ refreshInterval = DefaultRefreshInterval
    /\ intervalMs = getRefreshIntervalMs(DefaultRefreshInterval)
CurrencyNext == ConvertCall \/ RatesResponse \/ Tick
SpecCurrency == CurrencyInit /\ [][CurrencyNext]_vars

\* the display passes of two refreshes, interleaved at their awaits
TrackerInit ==
    /\ invoice = <<>>
    /\ idx = 1
    /\ usageItems = <<>>
    /\ midMonthPayment = 0
    /\ monthResult = NoMonth
    /\ mpc = "off"
    /\ actualTotalCost = Undef
    /\ today = [day |-> 15, month |-> 6, year |-> 2025]
    /\ period = NoPeriod
    /\ dpc = "off"
    /\ refresh = [p \in Procs |-> Idle]
    /\ cache = NoCacheFile
    /\ errCount = 0
    /\ statusBar = NothingShown
    /\ cooldownStartTime = NoCooldown
    /\ rateFile = NoRateFile
    /\ now = 0
    /\ conv = NoConversion
    /\ detectedUnknownModels = {}
    /\ unknownModelNotificationShown = FALSE
    /\ informationMessages = <<>>
    /\ scan = [p \in Procs |-> NoScan]
    /\ refreshInterval = DefaultRefreshInterval
    /\ intervalMs = getRefreshIntervalMs(DefaultRefreshInterval)
TrackerNext ==
    \E p \in Procs :
        \/ DisplayStart(p)
        \/ ItemObserved(p)
        \/ DisplayCompleted(p)
        \/ DisplayAborted(p)
SpecTracker == TrackerInit /\ [][TrackerNext]_vars

\* the refresh timer under every configured interval
IntervalInit ==
    /\ invoice = <<>>
    /\ idx = 1
    /\ usageItems = <<>>
    /\ midMonthPayment = 0
    /\ monthResult = NoMonth
    /\ mpc = "off"
    /\ actualTotalCost = Undef
    /\ today = [day |-> 15, month |-> 6, year |-> 2025]
    /\ period = NoPeriod
    /\ dpc = "off"
    /\ refresh = [p \in Procs |-> Idle]
    /\ cache = NoCacheFile
    /\ errCount = 0
    /\ statusBar = NothingShown
    /\ cooldownStartTime = NoCooldown
    /\ rateFile = NoRateFile
    /\ now = 0
    /\ conv = NoConversion
    /\ detectedUnknownModels = {}
    /\ unknownModelNotificationShown = FALSE
    /\ informationMessages = <<>>
    /\ scan = [p \in Procs |-> NoScan]
    /\ refreshInterval = DefaultRefreshInterval
    /\ intervalMs = getRefreshIntervalMs(DefaultRefreshInterval)
IntervalNext == ConfigChanged \/ TimerRestarted
SpecInterval == IntervalInit /\ [][IntervalNext]_vars

\* two refreshes (timer and manual command) interleaved at their awaits; the
\* calls after the membership resolution get one answer each
RejectedOnce == {Failure("http401")}
CtmUsageAnswer == {Success([gpt4 |-> Quota(150, 500), startOfMonth |-> "2025-06-01"])}
TeamUsageAnswer == {Success(<<Member(3, <<Usage("gpt-4", Quota(150, 500))>>)>>)}
UsageAnswer == {Success([gpt4 |-> Quota(150, 500), startOfMonth |-> "2025-06-01"])}
InvoiceAnswer == {Success([items |-> <<>>, hasUnpaidMidMonthInvoice |-> FALSE])}
TwoInit ==
    /\ invoice = <<>>
    /\ idx = 1
    /\ usageItems = <<>>
    /\ midMonthPayment = 0
    /\ monthResult = NoMonth
    /\ mpc = "off"
    /\ actualTotalCost = Undef
    /\ today = [day |-> 15, month |-> 6, year |-> 2025]
    /\ period = NoPeriod
    /\ dpc = "off"
    /\ refresh = [p \in Procs |-> Idle]
    /\ cache \in {NoCacheFile, CacheRecord(3, "subA", TRUE, 7, 0, "2025-06-01")}
    /\ errCount = 0
    /\ statusBar = NothingShown
    /\ cooldownStartTime = NoCooldown
    /\ rateFile = NoRateFile
    /\ now = 0
    /\ conv = NoConversion
    /\ detectedUnknownModels = {}
    /\ unknownModelNotificationShown = FALSE
    /\ informationMessages = <<>>
    /\ scan = [p \in Procs |-> NoScan]
    /\ refreshInterval = DefaultRefreshInterval
    /\ intervalMs = getRefreshIntervalMs(DefaultRefreshInterval)
TwoNext ==
    \E p \in Procs :
        \/ (p = "manual" => refresh[p].pc = "idle") /\ Start(p)
        \/ TokenResolved(p)
        \/ UsageStatusChecked(p)
        \/ CtmUsageResponseOn(p, RejectedOnce \cup CtmUsageAnswer)
        \/ CtmTeamsResponseOn(p, TeamsAnswers)
        \/ CtmTeamResponseOn(p, TeamAnswers)
        \/ TeamUsageResponseOn(p, TeamUsageAnswer)
        \/ IndivUsageResponseOn(p, UsageAnswer)
        \/ CurrentMonthResponseOn(p, InvoiceAnswer)
        \/ LastMonthResponseOn(p, InvoiceAnswer)
        \/ TokenReResolved(p)
SpecTwoRefreshes == TwoInit /\ [][TwoNext]_vars

\* a refresh and the conversions of its display, started on cache files that
\* are missing or cannot be read
CacheReadInit ==
    /\ invoice = <<>>
    /\ idx = 1
    /\ usageItems = <<>>
    /\ midMonthPayment = 0
    /\ monthResult = NoMonth
    /\ mpc = "off"
    /\ actualTotalCost = Undef
    /\ today = [day |-> 15, month |-> 6, year |-> 2025]
    /\ period = NoPeriod
    /\ dpc = "off"
    /\ refresh = [p \in Procs |-> Idle]
    /\ cache \in {NoCacheFile, BadCacheFile}
    /\ errCount = 0
    /\ statusBar = NothingShown
    /\ cooldownStartTime = NoCooldown
    /\ rateFile \in {NoRateFile, BadRateFile}
    /\ now = 0
    /\ conv = NoConversion
    /\ detectedUnknownModels = {}
    /\ unknownModelNotificationShown = FALSE
    /\ informationMessages = <<>>
    /\ scan = [p \in Procs |-> NoScan]
    /\ refreshInterval = DefaultRefreshInterval
    /\ intervalMs = getRefreshIntervalMs(DefaultRefreshInterval)
CacheReadNext ==
    \/ \E p \in {"timer"} :
          \/ Start(p)
          \/ TokenResolved(p)
          \/ UsageStatusChecked(p)
          \/ CtmUsageResponseOn(p, RejectedOnce \cup CtmUsageAnswer)
          \/ CtmTeamsResponseOn(p, TeamsAnswers)
          \/ CtmTeamResponseOn(p, TeamAnswers)
          \/ TeamUsageResponseOn(p, TeamUsageAnswer)
          \/ IndivUsageResponseOn(p, UsageAnswer)
          \/ CurrentMonthResponseOn(p, InvoiceAnswer)
          \/ LastMonthResponseOn(p, InvoiceAnswer)
          \/ TokenReResolved(p)
    \/ ConvertCallOn(Entries, {42000}, {"USD", "EUR"})
    \/ RatesResponse
SpecCacheRead == CacheReadInit /\ [][CacheReadNext]_vars

\* ===========================================================================
\* properties of the month builder (SpecMonth)
\* ===========================================================================
IsMidItem(it) == it.description.mid
MidItemCount == Cardinality({i \in DOMAIN usageItems : IsMidItem(usageItems[i])})

\* a credit line: carries the marker and has a defined cents value
IsCredit(line) == line.mid /\ line.centsKind = "number"

\* sum of |cents| over the credit lines among the first n lines
RECURSIVE SumCredits(_, _)
SumCredits(items, n) ==
    IF n = 0 THEN 0
    ELSE SumCredits(items, n - 1) + (IF IsCredit(items[n]) THEN Abs(items[n].cents) ELSE 0)

\* C1: the item list of a month holds at most one synthetic mid-month payment
\* item, however many lines carry the marker.
C1_AtMostOneMidItem == MidItemCount <= 1

\* C2: after each credit line the running mid-month total is the sum of |cents|
\* over the credit lines seen so far, the item pushed at that line shows that
\* running total behind a minus sign, the returned midMonthPayment is the sum
\* over all credit lines, and the running total never decreases.
C2_State ==
    /\ mpc \in {"loop", "returned"} => midMonthPayment = SumCredits(invoice, idx - 1)
    /\ (mpc = "loop" /\ idx > 1 /\ IsCredit(invoice[idx - 1])) =>
          /\ usageItems # <<>>
          /\ LET it == usageItems[Len(usageItems)]
             IN /\ it.totalDollars = Dollars(TRUE, SumCredits(invoice, idx - 1))
                /\ it.calculation = [kind |-> "midMonthPayment", shown |-> SumCredits(invoice, idx - 1)]
    /\ mpc = "returned" => monthResult.midMonthPayment = SumCredits(invoice, Len(invoice))
C2_RunningTotal == [](C2_State) /\ [][midMonthPayment' >= midMonthPayment]_vars

C2_Witness ==
    /\ mpc = "loop" /\ idx = 3
    /\ IsCredit(invoice[1]) /\ invoice[1].cents = -500
    /\ IsCredit(invoice[2]) /\ invoice[2].cents = -300
    /\ midMonthPayment = 800
    /\ usageItems[Len(usageItems)].totalDollars = Dollars(TRUE, 800)

\* ===========================================================================
\* properties of the billing period anchor (SpecDate)
\* ===========================================================================
\* C4: before day 3 the active period is the previous calendar month (January
\* giving December of the year before), from day 3 on it is the current month.
C4_ActivePeriod ==
    dpc = "computed" =>
        period.current =
            IF today.day < 3
            THEN (IF today.month = 1
                  THEN [month |-> 12, year |-> today.year - 1]
                  ELSE [month |-> today.month - 1, year |-> today.year])
            ELSE [month |-> today.month, year |-> today.year]

C4_Witness ==
    /\ dpc = "computed" /\ today.day = 2 /\ today.month = 1
    /\ period.current = [month |-> 12, year |-> today.year - 1]

\* months counted from year 0
MonthIndex(my) == my.year * 12 + (my.month - 1)

\* C5: the second month built is the calendar month immediately before the
\* active-period month, across year boundaries too.
C5_ConsecutiveMonths ==
    dpc = "computed" =>
        /\ period.last.month \in 1..12
        /\ period.current.month \in 1..12
        /\ MonthIndex(period.last) = MonthIndex(period.current) - 1

C5_Witness ==
    /\ dpc = "computed" /\ today.day = 1 /\ today.month = 2
    /\ period.current = [month |-> 1, year |-> today.year]
    /\ period.last = [month |-> 12, year |-> today.year - 1]

\* ===========================================================================
\* properties of the refresh flow (Spec)
\* ===========================================================================
\* C3: the month selected for display is the active-period month when its item
\* list is non-empty and the preceding month otherwise.
C3_SelectedMonth ==
    \A p \in Procs :
        refresh[p].pc = "done" =>
            LET f == refresh[p]
            IN IF f.stats.currentMonth.usageBasedPricing.items # <<>>
               THEN /\ f.activeMonthData = f.stats.currentMonth
                    /\ f.activeMonthData.month = f.period.current.month
                    /\ f.activeMonthData.year = f.period.current.year
               ELSE /\ f.activeMonthData = f.stats.lastMonth
                    /\ f.activeMonthData.month = f.period.last.month
                    /\ f.activeMonthData.year = f.period.last.year

C3_Witness ==
    \E p \in Procs :
        /\ refresh[p].pc = "done"
        /\ refresh[p].stats.currentMonth.usageBasedPricing.items = <<>>
        /\ Len(refresh[p].stats.lastMonth.usageBasedPricing.items) = 3
        /\ refresh[p].activeMonthData = refresh[p].stats.lastMonth
        /\ refresh[p].activeMonthData.month = 11

CredentialRejections == {"authError", "http401", "http403"}

\* the error with which the last answer made the fetch fail
ErrorOf(f) == IF f.received.answer.ok THEN f.thrown ELSE f.received.answer.err

\* C6: a credential rejection of the first stats fetch leads to one
\* re-resolution of the credential and one retry with the new credential; a
\* failure of the retry is thrown on, no new credential rethrows the original
\* error; a refresh makes at most two fetch attempts.
C6_SingleRetry ==
    \A p \in Procs :
        LET f == refresh[p]
        IN /\ f.attempts <= 2
           /\ f.tokenReads <= 2
           /\ f.pc = "retoken" =>
                 f.attempts = 1 /\ f.tokenReads = 2 /\ f.error \in CredentialRejections
           /\ f.attempts = 2 =>
                 /\ f.error \in CredentialRejections
                 /\ f.tokenReads = 2
                 /\ f.newToken # NoToken
                 /\ f.token = f.newToken
           /\ (f.pc = "failed" /\ f.attempts = 2) =>
                 f.thrown # NoError /\ f.thrown = ErrorOf(f)
           /\ (f.pc = "failed" /\ f.attempts = 1) =>
                 /\ f.thrown = f.error
                 /\ f.error \in CredentialRejections => (f.tokenReads = 2 /\ f.newToken = NoToken)
                 /\ f.error \notin CredentialRejections => f.tokenReads = 1

C6_Witness ==
    \E p \in Procs :
        /\ refresh[p].pc = "failed"
        /\ refresh[p].attempts = 2
        /\ refresh[p].error = "http401"
        /\ refresh[p].thrown = "http403"
        /\ refresh[p].token = "tokB"

\* p's step calls fetchCursorStats
CallsFetch(p) ==
    /\ refresh[p].pc \in {"usageStatus", "retoken"}
    /\ refresh'[p].attempts = refresh[p].attempts + 1

\* C7: a cached record with the subject of the current credential and a
\* populated startOfMonth is returned as it is, without a network call of the
\* resolver and without writing the cache, whatever its lastChecked.
C7_FastPath ==
    [][\A p \in Procs :
          (/\ CallsFetch(p)
           /\ cache.kind = "record"
           /\ cache.jwtSub = jwtSub(refresh'[p].token)
           /\ cache.startOfMonth # "")
          => /\ cache' = cache
             /\ refresh'[p].ctmCalls = 0
             /\ refresh'[p].pc \notin CtmPcs
             /\ refresh'[p].teamInfo =
                   [isTeamMember |-> cache.isTeamMember, teamId |-> cache.teamId,
                    userId |-> cache.userId, startOfMonth |-> cache.startOfMonth]]_vars

C7_Witness ==
    \E p \in Procs :
        /\ refresh[p].pc = "teamUsage"
        /\ refresh[p].ctmSource = "cache"
        /\ refresh[p].ctmCalls = 0
        /\ cache.kind = "record" /\ cache.lastChecked = 0
        /\ cache.jwtSub = jwtSub(refresh[p].token)

\* C8 as claimed: a record is returned only for its own subject, and after any
\* successful resolution the persisted record carries the subject of the
\* current credential.
C8_SubjectAfterResolution ==
    \A p \in Procs :
        refresh[p].pc \in {"teamUsage", "indivUsage"} =>
            /\ cache.kind = "record"
            /\ cache.jwtSub = jwtSub(refresh[p].token)

C8_State ==
    \A p \in Procs :
        refresh[p].pc \in {"teamUsage", "indivUsage"} =>
            /\ refresh[p].ctmSource \in {"cache", "saved", "unsaved"}
            /\ refresh[p].ctmSource \in {"cache", "saved"} =>
                  cache.kind = "record" /\ cache.jwtSub = jwtSub(refresh[p].token)
            /\ refresh[p].ctmSource = "cache" =>
                  refresh[p].teamInfo.startOfMonth = cache.startOfMonth

\* C8 as amended: a record is returned only for its own subject; on a mismatch
\* the resolver queries upstream, and every write of the cache stores a record
\* with the subject of the credential being resolved; after a resolution served
\* from the cache or whose write succeeded the persisted subject is that of the
\* credential (a failed write leaves the old file in place).
C8_SubjectUnlessWriteFailed ==
    /\ [](C8_State)
    /\ [][\A p \in Procs :
            /\ (CallsFetch(p) /\ cache.kind = "record" /\ cache.jwtSub # jwtSub(refresh'[p].token))
                  => (refresh'[p].pc = "ctmUsage" /\ refresh'[p].ctmSource = "none")
            /\ (refresh'[p] # refresh[p] /\ cache' # cache)
                  => (cache'.kind = "record" /\ cache'.jwtSub = jwtSub(refresh[p].token))]_vars

C8_Witness ==
    \E p \in Procs :
        /\ refresh[p].pc \in {"teamUsage", "indivUsage"}
        /\ refresh[p].ctmSource = "saved"
        /\ refresh[p].token = "tokB"
        /\ refresh[p].attempts = 2
        /\ refresh[p].received.call = "ctmTeam"
        /\ cache.jwtSub = "subB"
        /\ cache.lastChecked = 1

\* C9: a failing network call of the resolver propagates and leaves the cache
\* file as it was; the file is written only in the step in which the last
\* required call has succeeded.
C9_NoPartialRecord ==
    [][\A p \in Procs :
          /\ (/\ refresh[p].pc \in CtmPcs
              /\ refresh'[p] # refresh[p]
              /\ ~refresh'[p].received.answer.ok)
             => /\ cache' = cache
                /\ refresh'[p].pc \in {"retoken", "failed"}
                /\ refresh'[p].error = refresh'[p].received.answer.err
                      \/ refresh'[p].thrown = refresh'[p].received.answer.err
                /\ refresh'[p].pc = "failed" => refresh'[p].thrown = refresh'[p].received.answer.err
          /\ (refresh'[p] # refresh[p] /\ cache' # cache)
             => /\ refresh[p].pc \in {"ctmTeams", "ctmTeam"}
                /\ refresh'[p].received.answer.ok
                /\ refresh'[p].pc \in {"teamUsage", "indivUsage"}
                /\ refresh'[p].ctmCalls =
                      IF refresh'[p].teamInfo.isTeamMember /\ refresh'[p].teamInfo.teamId \notin {Undef, 0}
                      THEN 3 ELSE 2
                /\ cache'.kind = "record"
                /\ cache'.startOfMonth = refresh'[p].teamInfo.startOfMonth
                /\ cache'.isTeamMember = refresh'[p].teamInfo.isTeamMember]_vars

C9_Witness ==
    \E p \in Procs :
        /\ refresh[p].pc = "failed"
        /\ refresh[p].received.call = "ctmTeam"
        /\ ~refresh[p].received.answer.ok
        /\ refresh[p].thrown = "http500"
        /\ cache.kind = "record" /\ cache.jwtSub # jwtSub(refresh[p].token)

\* the member id is missing from the team usage, or its entry has no gpt-4 usage
MemberUnusable(teamUsage, userId) ==
    \/ \A i \in DOMAIN teamUsage : teamUsage[i].id # userId
    \/ \E i \in DOMAIN teamUsage :
          /\ teamUsage[i].id = userId
          /\ \A j \in DOMAIN teamUsage[i].usageData : teamUsage[i].usageData[j].modelType # "gpt-4"

\* C10: when the team usage has no entry for the member id, or that member has
\* no gpt-4 usage, the refresh fails with the NotFound error, which is thrown to
\* the outer catch without a retry, and no quota value is produced.
C10_NotFoundIsFatal ==
    \A p \in Procs :
        LET f == refresh[p]
        IN (/\ f.received.call = "teamUsage"
            /\ f.received.answer.ok
            /\ MemberUnusable(f.received.answer.body, f.teamInfo.userId))
           => /\ f.pc = "failed"
              /\ f.thrown = "notFound"
              /\ f.premiumRequests = NoPremium
              /\ f.stats = NoStats
              /\ f.attempts = 1 => (f.tokenReads = 1 /\ f.error = "notFound")

C10_Witness ==
    \E p \in Procs :
        /\ refresh[p].pc = "failed"
        /\ refresh[p].thrown = "notFound"
        /\ refresh[p].attempts = 1
        /\ refresh[p].received.call = "teamUsage"
        /\ refresh[p].received.answer.body = <<Member(3, <<Usage("gpt-3.5-turbo", Quota(1, 100))>>)>>
        /\ refresh[p].teamInfo.userId = 3

\* ===========================================================================
\* properties of the currency conversion (SpecCurrency)
\* ===========================================================================
\* a call of convertAmount / convertAndFormatCurrency is made in this step
ConversionStarts == conv.pc \in {"idle", "done"} /\ conv' # conv
\* the rate feed answers in this step
FeedAnswers == conv.pc = "fetching" /\ conv'.pc = "done"
\* the cached snapshot is less than 24 hours old
CachedSnapshotFresh ==
    rateFile.kind = "record" /\ now - rateFile.timestamp < 24 * 60 * 60 * 1000

\* C11, first half: a conversion to another currency uses the cached snapshot
\* exactly when it is less than 24 hours old; otherwise it asks the rate feed
\* and uses no rate before the answer.
C11_Lookup ==
    ConversionStarts /\ conv'.currencyCode # "USD" =>
        IF CachedSnapshotFresh
        THEN conv'.source = "cache" /\ conv'.rates = rateFile.rates /\ conv'.netCalls = 0
             /\ conv'.pc = "done"
        ELSE conv'.pc = "fetching" /\ conv'.netCalls = 1 /\ conv'.source = "none"
             /\ conv'.rates = NoRates /\ conv'.result = NoMoney /\ conv'.formatted = NoText
\* the fetched snapshot is the one used
C11_FetchedIsUsed ==
    FeedAnswers /\ conv'.received.answer.ok =>
        conv'.source = "feed" /\ conv'.rates = conv'.received.answer.body

\* C11 as stated: the cached snapshot is used iff it is less than 24 hours old;
\* otherwise the feed is asked before any rate is used, and the fetched
\* snapshot is always persisted with the time of the fetch.
C11_FreshOrRefetchedAndSaved ==
    [][C11_Lookup /\ C11_FetchedIsUsed
       /\ (FeedAnswers /\ conv'.received.answer.ok =>
             rateFile' = RateRecord(conv'.received.answer.body, now))]_vars

\* C11 amended: as above, but the fetched snapshot is persisted with the time
\* of the fetch unless writing the file fails, in which case the file is left
\* as it was; the conversion uses the fetched snapshot either way.
C11_FreshOrRefetched ==
    [][C11_Lookup /\ C11_FetchedIsUsed
       /\ (FeedAnswers /\ conv'.received.answer.ok =>
             rateFile' \in {RateRecord(conv'.received.answer.body, now), rateFile})
       /\ (FeedAnswers /\ ~conv'.received.answer.ok => rateFile' = rateFile)
       /\ (ConversionStarts => rateFile' = rateFile)]_vars

\* a stale snapshot was replaced by a fetched one, which the conversion used
C11_Witness ==
    /\ conv.pc = "done" /\ conv.source = "feed"
    /\ rateFile = RateRecord(conv.rates, now)
    /\ now >= 24 * 60 * 60 * 1000

\* C12: convertAmount(x, "USD") returns x with the USD symbol, sends nothing to
\* the rate feed and neither reads nor writes the rate cache file.
C12_UsdIsIdentity ==
    [][ConversionStarts /\ conv'.entry = "convertAmount" /\ conv'.currencyCode = "USD" =>
          /\ conv'.pc = "done" /\ ~conv'.raised
          /\ conv'.result = Money(conv'.amount, "$")
          /\ conv'.netCalls = 0 /\ conv'.cacheReads = 0 /\ conv'.cacheWrites = 0
          /\ rateFile' = rateFile]_vars

\* convertAmount(4.20, "USD") has returned while a cached snapshot was on file
C12_Witness ==
    /\ conv.pc = "done" /\ conv.entry = "convertAmount" /\ conv.currencyCode = "USD"
    /\ conv.amount = 42000 /\ rateFile.kind = "record"

\* C13: for a non-USD target without a fresh cached snapshot, a failing rate
\* feed makes convertAmount return the amount itself with the USD symbol; it
\* does not reject.
C13_FeedDownFallsBack ==
    [][FeedAnswers /\ ~conv'.received.answer.ok =>
          /\ conv.currencyCode # "USD" /\ ~CachedSnapshotFresh'
          /\ conv'.result = Money(conv.amount, "$")
          /\ ~conv'.raised]_vars

\* the feed failed a conversion of 4.20 to EUR
C13_Witness ==
    /\ conv.pc = "done" /\ conv.received.call = "rates" /\ ~conv.received.answer.ok
    /\ conv.entry = "convertAmount" /\ conv.currencyCode = "EUR" /\ conv.amount = 42000

\* the conversion fell back: the feed failed or the snapshot in use has no
\* rate for the configured currency
FellBack ==
    \/ conv.received.call = "rates" /\ ~conv.received.answer.ok
    \/ conv.source # "none" /\ RateOf(conv.rates, toLowerCase(conv.currencyCode)) = Undef

\* C14: when the display currency is not USD and the conversion fell back,
\* convertAndFormatCurrency shows the unconverted amount as USD: "$" and two
\* decimals.
C14_DegradesToUsdText ==
    conv.pc = "done" /\ conv.entry = "convertAndFormatCurrency" /\ conv.currencyCode # "USD"
      /\ FellBack
    => conv.formatted = Text("$", 2, ToFixed2(conv.amount))

\* C15: when the snapshot in use has no rate for the target currency,
\* convertAmount returns the amount itself with the USD symbol and does not
\* reject.
C15_MissingRateFallsBack ==
    conv.pc = "done" /\ conv.currencyCode # "USD" /\ conv.source # "none"
      /\ RateOf(conv.rates, toLowerCase(conv.currencyCode)) = Undef
    => conv.result = Money(conv.amount, "$") /\ ~conv.raised

\* 19.99 was converted to JPY with a snapshot that has no JPY rate
C15_Witness ==
    /\ conv.pc = "done" /\ conv.entry = "convertAmount" /\ conv.currencyCode = "JPY"
    /\ conv.amount = 199900 /\ conv.source = "cache"
    /\ "jpy" \notin DOMAIN conv.rates.usd

\* ===========================================================================
\* properties of the unknown-model tracker (SpecTracker)
\* ===========================================================================
\* one of the two terms is a case-insensitive substring of the other
NearDuplicates(a, b) ==
    Includes(LowerCase(a), LowerCase(b)) \/ Includes(LowerCase(b), LowerCase(a))

\* C16: the unknown-model set never holds two distinct entries of which one
\* is a case-insensitive substring of the other, and no entry is ever removed.
C16_NoNearDuplicates ==
    /\ [](\A a, b \in detectedUnknownModels : a # b => ~NearDuplicates(a, b))
    /\ [][detectedUnknownModels \subseteq detectedUnknownModels']_vars

\* "c9" is in the set and a refresh has just observed "C9", which is not
C16_Witness ==
    /\ <<99, 57>> \in detectedUnknownModels
    /\ \E p \in Procs : scan[p].last.term = <<67, 57>> /\ scan[p].pc = "items"
    /\ <<67, 57>> \notin detectedUnknownModels

\* the display pass of p completes in this step
Completes(p) == scan[p].pc = "items" /\ scan'[p].pc = "done"

\* C17: the aggregated notification is shown at most once; it is shown by the
\* first refresh that completes while the set is not empty, with the set as
\* it is then, and by no other step.
C17_NotifiedOnce ==
    /\ [](/\ Len(informationMessages) <= 1
          /\ unknownModelNotificationShown <=> Len(informationMessages) = 1)
    /\ [][/\ \A p \in Procs :
               Completes(p) =>
                   IF informationMessages = <<>> /\ detectedUnknownModels # {}
                   THEN informationMessages' = <<detectedUnknownModels>>
                   ELSE informationMessages' = informationMessages
          /\ informationMessages' # informationMessages => \E p \in Procs : Completes(p)]_vars

\* the notification was shown, the set has grown since, and a refresh that
\* observed the new term has completed while the other is still in its pass
C17_Witness ==
    /\ Len(informationMessages) = 1
    /\ \E p, q \in Procs :
          /\ scan[p].pc = "done"
          /\ scan[p].last.term \in detectedUnknownModels \ informationMessages[1]
          /\ scan[q].pc = "items"

\* ===========================================================================
\* labels and skipped lines of the month builder (SpecMonth)
\* ===========================================================================
\* the label the stated priority gives a general line: tool calls, then the
\* extra-fast-premium phrase, then a known model, then the unknown-model label
StatedLabel(line) ==
    IF line.tool THEN ToolCallsLabel
    ELSE IF line.xfast THEN (IF line.paren # "" THEN line.paren ELSE FastPremiumLabel)
    ELSE IF line.known # "" THEN line.known
    ELSE UnknownModelLabel

\* C18: every item built from a general line carries the label of the stated
\* priority; a line matching both "extra fast premium" and a known model is
\* labelled by the extra-fast-premium rule.
C18_LabelPriority ==
    \A i \in 1..Len(usageItems) :
        ~IsMidItem(usageItems[i]) /\ usageItems[i].description.fmt = "general" =>
            usageItems[i].modelNameForTooltip = StatedLabel(usageItems[i].description)

\* C20: a line whose cents value is absent or undefined adds no item and
\* leaves the running mid-month total as it was, with or without the
\* mid-month marker.
C20_NoCentsNoItem ==
    [][mpc = "loop" /\ idx' = idx + 1 /\ invoice[idx].centsKind \in {"absent", "undefined"} =>
          usageItems' = usageItems /\ midMonthPayment' = midMonthPayment]_vars

\* a marked line with undefined cents and an unmarked line without cents have
\* been passed after a credit was counted
C20_Witness ==
    /\ idx = 4
    /\ invoice[1].mid /\ invoice[1].centsKind = "number"
    /\ invoice[2].mid /\ invoice[2].centsKind = "undefined"
    /\ ~invoice[3].mid /\ invoice[3].centsKind = "absent"
    /\ midMonthPayment = 500 /\ Len(usageItems) = 1

\* ===========================================================================
\* the premium-quota percentage (Spec)
\* ===========================================================================
\* C19: whatever quota the upstream service reports, limit 0 included, a
\* completed refresh displays a finite premium percentage and hands a finite
\* percentage to the usage notifications.
C19_FinitePercent ==
    statusBar.kind = "stats" =>
        statusBar.premiumPercent.kind = "finite" /\ statusBar.notifiedPercent.kind = "finite"

\* ===========================================================================
\* the refresh timer (SpecInterval)
\* ===========================================================================
\* C21: whatever value is configured, the period of the refresh timer is at
\* least 10 seconds.
C21_AtLeastTenSeconds == intervalMs >= 10 * 1000

\* ===========================================================================
\* snapshots and failures of the refresh flow (Spec)
\* ===========================================================================
\* the frame holds a snapshot made of the three parts this call fetched
WholeSnapshot(f) ==
    /\ f.pc = "done"
    /\ f.received.call = "monthLast" /\ f.received.answer.ok
    /\ f.premiumRequests # NoPremium
    /\ f.currentMonthData # NoMonth
    /\ f.stats.premiumRequests = f.premiumRequests
    /\ f.stats.currentMonth = MonthEntry(f.period.current, f.currentMonthData)
    /\ f.stats.lastMonth.usageBasedPricing # NoMonth
    /\ f.stats.lastMonth.month = f.period.last.month

\* C22: the caller of fetchCursorStats holds either no snapshot or one whose
\* quota, active-period month and preceding-period month were all fetched;
\* a failing part fails the call and leaves the caller without a snapshot.
C22_NoPartialSnapshot ==
    /\ [](\A p \in Procs : refresh[p].stats # NoStats => WholeSnapshot(refresh[p]))
    /\ [][\A p \in Procs :
             refresh'[p] # refresh[p] /\ refresh'[p].received.call # "none"
               /\ ~refresh'[p].received.answer.ok /\ refresh[p].pc \in FetchPcs
             => refresh'[p].stats = NoStats /\ refresh'[p].pc \in {"failed", "retoken"}
                /\ statusBar' = statusBar]_vars

\* the quota and the active-period month were fetched, the preceding-period
\* month failed, and the caller has no snapshot
C22_Witness ==
    \E p \in Procs :
        /\ refresh[p].pc = "failed"
        /\ refresh[p].received.call = "monthLast"
        /\ refresh[p].premiumRequests # NoPremium
        /\ refresh[p].currentMonthData # NoMonth
        /\ refresh[p].stats = NoStats

\* ===========================================================================
\* padding of the month builder (SpecMonth)
\* ===========================================================================
\* the lines of the invoice that are neither skipped nor mid-month payments
Displayed(line) ==
    line.centsKind = "number" /\ ~line.mid /\ line.fmt # "none" /\ line.count > 0
\* an upper bound of the numbers of characters compared
MaxTextLength == 12
\* the digit count of the largest request count of the invoice's displayed lines
WidestCount ==
    CHOOSE w \in 1..MaxTextLength :
        /\ \A k \in 1..Len(invoice) : Displayed(invoice[k]) => DigitCount(invoice[k].count) <= w
        /\ \/ w = 1
           \/ \E k \in 1..Len(invoice) : Displayed(invoice[k]) /\ DigitCount(invoice[k].count) = w
\* the widest formatted per-request cost of the invoice's displayed lines
WidestCost ==
    CHOOSE w \in 1..MaxTextLength :
        /\ \A k \in 1..Len(invoice) :
              Displayed(invoice[k]) => TextLength(ToFixed3(invoice[k].cents, invoice[k].count)) <= w
        /\ \E k \in 1..Len(invoice) :
              Displayed(invoice[k]) /\ TextLength(ToFixed3(invoice[k].cents, invoice[k].count)) = w

\* C23: every displayed request count of a month has as many characters as
\* the largest request count of the month's displayed lines has digits.
C23_CountsPadded ==
    \A i \in 1..Len(usageItems) :
        ~IsMidItem(usageItems[i]) => usageItems[i].calculation.countLength = WidestCount

\* the counts 999 and 5 have both been displayed, the 5 with three characters
C23_Witness ==
    /\ mpc = "returned"
    /\ \E i, j \in 1..Len(usageItems) :
          /\ ~IsMidItem(usageItems[i]) /\ ~IsMidItem(usageItems[j])
          /\ usageItems[i].calculation.shown = 999
          /\ usageItems[j].calculation.shown = 5
          /\ usageItems[j].calculation.countLength = 3

\* C24: the cost padding width of pass 1 is the width of the widest formatted
\* per-request cost of the month's displayed lines, negative ones included,
\* and every displayed per-request cost has that width.
C24_CostsPadded ==
    (mpc = "returned" /\ \E k \in 1..Len(invoice) : Displayed(invoice[k])) =>
        /\ calculatePaddingWidths(invoice).costPaddingWidth = WidestCost
        /\ \A i \in 1..Len(usageItems) :
              ~IsMidItem(usageItems[i]) => usageItems[i].calculation.costLength = WidestCost

\* ===========================================================================
\* the total cost displayed (SpecMonth)
\* ===========================================================================
\* the cents of the invoice's displayed lines with a positive amount, from line k on
RECURSIVE PositiveCents(_)
PositiveCents(k) ==
    IF k > Len(invoice) THEN 0
    ELSE (IF Displayed(invoice[k]) /\ invoice[k].cents > 0 THEN invoice[k].cents ELSE 0)
         + PositiveCents(k + 1)

\* C30: the total cost displayed is the sum of the totals of the items whose
\* total is positive; mid-month payment items and items with a negative or
\* zero total do not change it.
C30_OnlyPositiveTotals ==
    mpc = "displayed" => actualTotalCost = PositiveCents(1)

\* a month with a payment item, an item with a negative total and one with a
\* positive total has been displayed
C30_Witness ==
    /\ mpc = "displayed"
    /\ actualTotalCost > 0
    /\ \E i, j, k \in 1..Len(usageItems) :
          /\ IsMidItem(usageItems[i]) /\ usageItems[i].totalDollars.cents > 0
          /\ ~IsMidItem(usageItems[j]) /\ usageItems[j].totalDollars.cents < 0
          /\ ~IsMidItem(usageItems[k]) /\ usageItems[k].totalDollars.cents > 0

\* ===========================================================================
\* failures, the error state and the quota source of the refresh flow (Spec)
\* ===========================================================================
\* the step of p is the arrival of a failed network answer in fetchCursorStats
NetworkFailure(p) ==
    /\ refresh[p].pc \in FetchPcs
    /\ refresh'[p] # refresh[p]
    /\ refresh'[p].received.call = refresh[p].pc
    /\ ~refresh'[p].received.answer.ok

\* C26: a network failure of the stats fetch that is not a credential
\* rejection is propagated without a retry: the refresh ends, the display is
\* not updated and the consecutive error count grows by exactly one.
C26_FailurePropagates ==
    [][\A p \in Procs :
          NetworkFailure(p) /\ ~IsCredentialRejection(refresh'[p].received.answer.err)
          => /\ refresh'[p].pc = "failed"
             /\ refresh'[p].thrown = refresh'[p].received.answer.err
             /\ refresh'[p].attempts = refresh[p].attempts
             /\ refresh'[p].tokenReads = refresh[p].tokenReads
             /\ statusBar' = statusBar
             /\ errCount' = errCount + 1]_vars

\* a server error ended a refresh at its first attempt, and was counted
C26_Witness ==
    \E p \in Procs :
        /\ refresh[p].pc = "failed"
        /\ refresh[p].thrown = "http500"
        /\ refresh[p].received.answer = Failure("http500")
        /\ refresh[p].attempts = 1
        /\ errCount = 1

\* C28: a refresh whose fetch succeeds, at the first attempt or at the retry,
\* leaves the consecutive error count at zero and no cooldown active, whatever
\* they were; the timer is restarted exactly when a cooldown was active.
C28_SuccessClearsErrorState ==
    [][\A p \in Procs :
          refresh'[p].pc = "done" /\ refresh[p].pc # "done"
          => /\ errCount' = 0
             /\ cooldownStartTime' = NoCooldown
             /\ refresh'[p].timerRestarts = IF cooldownStartTime # NoCooldown THEN 1 ELSE 0]_vars

\* a refresh begun during a cooldown succeeded at its retry and restarted the timer
C28_Witness ==
    \E p \in Procs :
        /\ refresh[p].pc = "done"
        /\ refresh[p].attempts = 2
        /\ refresh[p].timerRestarts = 1
        /\ errCount = 0
        /\ cooldownStartTime = NoCooldown

\* the team path is due: a team, with a usable team id and member id
TeamPath(isTeamMember, teamId, userId) ==
    isTeamMember /\ teamId \notin {Undef, 0} /\ userId \notin {Undef, 0}

\* C29: the quota source is the team's exactly when the membership says team
\* member with a usable team id and member id, whether the membership was
\* served from the cache or resolved afresh; the record saved by a fresh
\* resolution leads to the source the fresh resolution led to.
C29_SameQuotaSource ==
    /\ [](\A p \in Procs :
             refresh[p].pc \in {"teamUsage", "indivUsage"}
             => /\ (refresh[p].pc = "teamUsage")
                     = TeamPath(refresh[p].teamInfo.isTeamMember, refresh[p].teamInfo.teamId,
                                refresh[p].teamInfo.userId)
                /\ refresh[p].ctmSource = "cache"
                     => (refresh[p].pc = "teamUsage")
                          = TeamPath(cache.isTeamMember, cache.teamId, cache.userId))
    /\ [][\A p \in Procs :
             refresh'[p].ctmSource = "saved" /\ refresh[p].pc \in CtmPcs
             => /\ cache'.kind = "record"
                /\ (refresh'[p].pc = "teamUsage")
                     = TeamPath(cache'.isTeamMember, cache'.teamId, cache'.userId)]_vars

\* a record saved in this session with member id 0 (the fresh resolution found
\* a team but no member id) is served from the cache to the individual source
C29_Witness ==
    \E p \in Procs :
        /\ refresh[p].ctmSource = "cache"
        /\ refresh[p].pc = "indivUsage"
        /\ refresh[p].teamInfo.isTeamMember
        /\ refresh[p].teamInfo.userId = 0
        /\ cache.lastChecked \in Stamps

\* ===========================================================================
\* two interleaved refreshes and the membership cache (SpecTwoRefreshes)
\* ===========================================================================
\* the file holds the membership that the refresh with frame f resolved for
\* its own credential: every field comes from f
WrittenBy(f, file) ==
    /\ file.kind = "record"
    /\ file.jwtSub = jwtSub(f.token)
    /\ file.isTeamMember = f.teamInfo.isTeamMember
    /\ file.teamId = f.teamInfo.teamId
    /\ file.userId = (IF f.teamInfo.userId = Undef THEN 0 ELSE f.teamInfo.userId)
    /\ file.startOfMonth = f.teamInfo.startOfMonth
    /\ file.lastChecked \in Stamps

\* the step of p begins an attempt of fetchCursorStats, which reads the cache
ReadsCache(p) ==
    /\ refresh[p].pc \in {"usageStatus", "retoken"}
    /\ refresh'[p].attempts = refresh[p].attempts + 1

\* C27: when refreshes interleave, every change of the membership cache puts
\* there the complete record of the refresh that took the step (the last
\* write wins, fields of two writes are never mixed), and every read trusts
\* the record only if its subject is the subject of the reader's credential.
C27_LastWriteWins ==
    /\ [][cache' # cache
          => \E p \in Procs : /\ refresh[p].pc \in CtmPcs
                              /\ refresh'[p].ctmSource = "saved"
                              /\ \A q \in Procs \ {p} : refresh'[q] = refresh[q]
                              /\ WrittenBy(refresh'[p], cache')]_vars
    /\ [][\A p \in Procs :
             ReadsCache(p)
             => /\ cache' = cache
                /\ (refresh'[p].ctmSource = "cache")
                     = (/\ cache.kind = "record"
                        /\ cache.jwtSub = jwtSub(refresh'[p].token)
                        /\ cache.startOfMonth # "")
                /\ refresh'[p].ctmSource # "cache" => refresh'[p].pc = "ctmUsage"]_vars

\* both refreshes have finished, each saved the membership of its own
\* credential, and the file holds the record of the manual one: the timer's
\* team record was replaced as a whole
C27_Witness ==
    /\ refresh["timer"].pc = "done" /\ refresh["manual"].pc = "done"
    /\ refresh["timer"].ctmSource = "saved" /\ refresh["manual"].ctmSource = "saved"
    /\ refresh["timer"].token = "tokA" /\ refresh["manual"].token = "tokB"
    /\ refresh["timer"].teamInfo.isTeamMember /\ ~refresh["manual"].teamInfo.isTeamMember
    /\ WrittenBy(refresh["manual"], cache)

\* ===========================================================================
\* cache files that cannot be read (SpecCacheRead)
\* ===========================================================================
\* the frame of a refresh that found no membership cache and asks the network
MembershipMiss(f, tok) ==
    /\ f.pc = "ctmUsage"
    /\ f.token = tok
    /\ f.ctmCalls = 1
    /\ f.ctmSource = "none"
    /\ f.teamInfo = NoTeamInfo
    /\ f.thrown = NoError

\* the step is a call of convertAmount or convertAndFormatCurrency for a
\* currency other than USD, which reads the rate cache
ReadsRates ==
    /\ conv.pc \in {"idle", "done"}
    /\ conv' # conv
    /\ conv'.currencyCode # "USD"

\* the frame of a conversion that found no rate cache and asks the rate feed
RatesMiss(f) ==
    /\ f.pc = "fetching"
    /\ f.cacheReads = 1
    /\ f.netCalls = 1
    /\ f.source = "none"
    /\ f.rates = NoRates
    /\ ~f.raised
    /\ f.result = NoMoney

\* C25: a membership cache file or rate cache file that cannot be read or
\* parsed is treated as a missing one: the reader goes on to the network as
\* on a miss, in the very state a missing file leads to, and no error of the
\* read is raised.
C25_UnreadableIsMissing ==
    /\ [][\A p \in Procs :
             ReadsCache(p) /\ cache.kind \in {"missing", "malformed"}
             => /\ MembershipMiss(refresh'[p], refresh'[p].token)
                /\ refresh'[p] = EnterFetch([refresh[p] EXCEPT !.newToken = refresh'[p].newToken],
                                            refresh'[p].token, NoCacheFile)
                /\ errCount' = errCount
                /\ cache' = cache]_vars
    /\ [][ReadsRates /\ rateFile.kind \in {"missing", "malformed"}
          => /\ RatesMiss(conv')
             /\ conv' = convertAmount([NoConversion EXCEPT !.entry = conv'.entry, !.amount = conv'.amount,
                                                           !.currencyCode = conv'.currencyCode],
                                      NoRateFile, now)
             /\ rateFile' = rateFile]_vars

\* a refresh and a conversion have both read a file that cannot be parsed and
\* wait for the network
C25_Witness ==
    /\ cache = BadCacheFile
    /\ rateFile = BadRateFile
    /\ MembershipMiss(refresh["timer"], refresh["timer"].token)
    /\ RatesMiss(conv)

====
